---------------------------- MODULE Spec2Model ----------------------------
(***************************************************************************)
(* Chunked transfer coordinator of optimized-file-uploader.                *)
(*                                                                         *)
(* Server: the express routes of the local-storage build (chunk/init,      *)
(* chunk/upload, chunk/complete, chunk/download, the presigned-URL routes, *)
(* the whole-file upload, GET /videos and DELETE /videos).  Client: the    *)
(* TraditionalMode and OptimizedMode components.  Sizes are scaled: one    *)
(* model byte stands for one MiB, and CHUNK_SIZE ranges over               *)
(* 1..MaxChunkSize instead of being 5 MiB.                                 *)
(***************************************************************************)
EXTENDS Integers, Sequences, FiniteSets, TLC

(* ------------------------------ bounds -------------------------------- *)
MaxFileSize == 4       \* largest file a user selects, in model bytes
MaxChunkSize == 2      \* CHUNK_SIZE ranges over 1..MaxChunkSize
MaxSessions == 1       \* upload ids that can be open at the same time
MaxTotalChunks == 2    \* largest totalChunks of a raw HTTP request
MaxStreams == 1        \* write streams with queued calls
MaxRequests == 5       \* raw HTTP requests in one behaviour
MaxFaults == 2         \* transport failures in one behaviour
MaxCalls == 2          \* calls of the upload and download handlers in one behaviour
MaxSplitSize == 12     \* largest file size given to the splitter alone
MaxSplitChunk == 5     \* largest chunk size given to the splitter alone
MaxOverlap == 2        \* sessions, and write streams, of one name open together

(* -------------------------- program constants ------------------------- *)
PARALLEL_CHUNKS == 3

(* ------------------------------ input sets ---------------------------- *)
Names == {"a"}
FilenameInputs == Names \cup {""}          \* "" is a missing/empty filename
UploadIds == 1..MaxSessions
UploadIdInputs == 0..MaxSessions           \* 0 is a missing uploadId field
TotalInputs == (-1)..MaxTotalChunks
IndexInputs == 0..(MaxTotalChunks - 1)
\* the bytes a raw request sends as chunk idx (the routes never read them)
PayloadsOf(idx) == {<<idx + 1>>}
ChunkSizes == 1..MaxChunkSize
\* the start and end parameters of a raw download request
StartInputs == 0..MaxTotalChunks
NoEnd == -1                                \* parseInt of a missing end: NaN
EndInputs == StartInputs \cup {NoEnd}
NoRange == -2                              \* a request without a Range header
RangeStartInputs == StartInputs \cup {NoRange}

VARIABLES
    mode,          \* which client drives the system: "api", "proxied", "direct",
                   \* "library" (raw requests to the whole-file routes),
                   \* "sessions" (raw requests of uploads of one name that overlap),
                   \* "replace" (downloads of a name that is replaced or deleted)
    chunkSize,     \* CHUNK_SIZE, in model bytes
    chunkDirs,     \* uploads/chunks/<uploadId>/chunk_<i>
    permanent,     \* uploads/permanent/<filename>
    writeStreams,  \* fs.WriteStreams whose open/write calls are still queued
    bucket,        \* the objects of the MinIO bucket
    declared,      \* history: totalChunks given to the init that opened a session
    sessionHist,   \* history of a session: a complete was rejected, parts came out of
                   \* order, a part was sent again
    committed,     \* history: the object of the last acknowledged complete
    lastComplete,  \* history: how the last complete that opened a stream ended
    lastResp,      \* the last HTTP response of the chunk routes
    requests,      \* raw HTTP requests handled so far
    faults,        \* transport failures so far
    file,          \* useState: the selected File
    uploading,     \* useState
    uploadProgress,\* useState
    status,        \* useState
    stats,         \* useState: stats.size, -1 for null
    videoUrl,      \* useState: the name the URL points to, "" for null
    selected,      \* App: selectedFilename, set by onUploadSuccess
    jobs,          \* the calls of handleChunkedUpload, the running one last
    libraryLoad,   \* the name loadFromLibrary is fetching a URL for, "" for none
    downloading,   \* useState
    downloads,     \* the calls of handleChunkedDownload, the running one last
    downloadStats, \* useState: downloadStats.size, -1 for null
    saved,         \* the Blob handed to the browser by link.click()
    split          \* the parts the splitter produced (splitter-only runs)

serverVars == <<chunkDirs, permanent, writeStreams, declared, sessionHist,
                committed, lastComplete, lastResp>>
uiVars == <<file, uploading, uploadProgress, status, stats, videoUrl, selected,
            libraryLoad>>
uploadVars == <<uiVars, jobs>>
downloadVars == <<downloading, downloads, downloadStats, saved>>
vars == <<mode, chunkSize, serverVars, bucket, requests, faults, uploadVars,
          downloadVars, split>>

(* ------------------------------ helpers ------------------------------- *)
Min(a, b) == IF a < b THEN a ELSE b

Max(a, b) == IF a > b THEN a ELSE b

SetMin(S) == CHOOSE x \in S : \A y \in S : x <= y

RECURSIVE Concat(_)
Concat(ss) == IF ss = <<>> THEN <<>> ELSE Head(ss) \o Concat(Tail(ss))

Absent == [present |-> FALSE, data |-> <<>>]
Stored(bytes) == [present |-> TRUE, data |-> bytes]

NoChunks == [i \in {} |-> <<>>]
NoDir == [exists |-> FALSE, chunks |-> NoChunks]
EmptyDir == [exists |-> TRUE, chunks |-> NoChunks]

NoResp == [route |-> "none", status |-> 0, uploadId |-> 0, missing |-> {}]
Resp(r, s, u, m) == [route |-> r, status |-> s, uploadId |-> u, missing |-> m]

(* ------------------------- client: the splitter ----------------------- *)
\* Math.ceil(a / b) for a >= 0, b > 0
Ceil(a, b) == (a + b - 1) \div b

\* Math.round((c / t) * 100)
Percent(c, t) == (200 * c + t) \div (2 * t)

\* Math.floor in the place of Math.ceil
TotalChunksMutant(size, c) == size \div c

\* const totalChunks = Math.ceil(file.size / CHUNK_SIZE)
TotalChunks(size, c) == Ceil(size, c)

\* const start = chunkIndex * CHUNK_SIZE
ChunkStart(i, c) == i * c

\* const end = Math.min(start + CHUNK_SIZE, file.size)
ChunkEnd(i, c, size) == Min(ChunkStart(i, c) + c, size)

\* Blob.slice(start, end): bytes start..end-1, both ends clamped to the size
Slice(data, start, end) ==
    SubSeq(data, Min(start, Len(data)) + 1, Min(end, Len(data)))

\* const chunk = file.slice(start, end)
ChunkOf(data, i, c) == Slice(data, ChunkStart(i, c), ChunkEnd(i, c, Len(data)))

\* a loop that puts every remaining part in one batch
WindowIndicesMutant(i, total) == i..(total - 1)

\* for (let j = i; j < Math.min(i + PARALLEL_CHUNKS, totalChunks); j++)
WindowIndices(i, total) == i..(Min(i + PARALLEL_CHUNKS, total) - 1)

\* a loop that advances by one index
NextWindowMutant(i) == i + 1

\* for (let i = 0; i < totalChunks; i += PARALLEL_CHUNKS)
NextWindow(i) == i + PARALLEL_CHUNKS

(* ------------------------- client: an upload job ---------------------- *)
FileVersions == {1}
FileOf(v, size) == [name |-> "a", data |-> [k \in 1..size |-> 10 * v + k]]
Files == {FileOf(v, size) : v \in FileVersions, size \in 0..MaxFileSize}

\* the state of one call of handleChunkedUpload
NewJob(f, c) ==
    [file |-> f, total |-> TotalChunks(Len(f.data), c), uploadId |-> 0,
     win |-> 0, completed |-> 0,
     parts |-> [i \in 0..(TotalChunks(Len(f.data), c) - 1) |-> "idle"],
     pc |-> "init", failedAt |-> -1, finalized |-> FALSE, faulted |-> FALSE]

\* batch.push(uploadChunk(j)) for every j of the window: each call runs to its
\* first await, so the requests of a window are issued together
LaunchWindow(job, i) ==
    [job EXCEPT !.win = i, !.pc = "window",
                !.parts = [k \in DOMAIN @ |->
                             IF k \in WindowIndices(i, job.total) THEN "sent" ELSE @[k]]]

\* a batch that counts as resolved whatever its promises did
WindowResolvedMutant(job) == TRUE

\* await Promise.all(batch) resolves when every promise of the window resolved
WindowResolved(job) ==
    \A k \in WindowIndices(job.win, job.total) : job.parts[k] = "done"

\* a loop that runs the window it has just finished once more
AfterWindowMutant(job) == LaunchWindow(job, job.win)

\* the loop after a resolved window: the next window, or the finalize request
AfterWindow(job) ==
    IF NextWindow(job.win) < job.total
    THEN LaunchWindow(job, NextWindow(job.win))
    ELSE [job EXCEPT !.pc = "finalize", !.finalized = TRUE]

\* the job after init: the first window, or the finalize request when
\* totalChunks is 0
AfterInit(job) ==
    IF 0 < job.total
    THEN LaunchWindow(job, 0)
    ELSE [job EXCEPT !.pc = "finalize", !.finalized = TRUE]

\* an uploadChunk that does not count
PartDoneMutant(job, i) == [job EXCEPT !.parts[i] = "done"]

\* uploadChunk(i) resolved: completedChunks++
PartDone(job, i) ==
    [job EXCEPT !.parts[i] = "done", !.completed = @ + 1]

\* the continuation of the job after uploadChunk(i) resolved
AfterPartDone(job, i) ==
    IF job.pc = "window" /\ WindowResolved(PartDone(job, i))
    THEN AfterWindow(PartDone(job, i))
    ELSE PartDone(job, i)

\* a job that records a rejected part and carries on
PartFailedMutant(job, i) == [job EXCEPT !.parts[i] = "failed"]

\* a job that gives up the siblings of a rejected part with it
PartFailedAbortMutant(job, i) ==
    [job EXCEPT !.parts = [k \in DOMAIN @ |-> IF @[k] = "sent" THEN "failed" ELSE @[k]],
                !.pc = "failed", !.failedAt = i]

\* uploadChunk(i) rejected: Promise.all rejects with the first rejection and
\* the job goes to its catch block; later rejections are dropped
PartFailed(job, i) ==
    IF job.pc = "window"
    THEN [job EXCEPT !.parts[i] = "failed", !.pc = "failed", !.failedAt = i]
    ELSE [job EXCEPT !.parts[i] = "failed"]

InFlight(job) == {i \in DOMAIN job.parts : job.parts[i] = "sent"}

(* ------------------------ client: a download job ---------------------- *)
\* const end = Math.min(start + CHUNK_SIZE, fileSize) - 1
RangeEnd(i, c, size) == Min(ChunkStart(i, c) + c, size) - 1

\* the state of one call of handleChunkedDownload
NewDownload(n) ==
    [name |-> n, size |-> 0, total |-> 0, win |-> 0, parts |-> <<>>,
     chunks |-> <<>>, pc |-> "probe", failedAt |-> -1, finalized |-> FALSE,
     faulted |-> FALSE]

\* const chunks = new Array(totalChunks), and the first window of the loop
AfterProbe(d, size, c) ==
    AfterInit([d EXCEPT !.size = size, !.total = TotalChunks(size, c),
                        !.parts = [i \in 0..(TotalChunks(size, c) - 1) |-> "idle"],
                        !.chunks = [i \in 0..(TotalChunks(size, c) - 1) |-> <<>>]])

\* chunks[chunkIndex] = response.data
SlotFilled(d, i, body) == [d EXCEPT !.parts[i] = "done", !.chunks[i] = body]

AfterSlotFilled(d, i, body) ==
    IF d.pc = "window" /\ WindowResolved(SlotFilled(d, i, body))
    THEN AfterWindow(SlotFilled(d, i, body))
    ELSE SlotFilled(d, i, body)

\* new Blob(chunks): the slots in index order
BlobOf(chunks) ==
    Concat([k \in 1..Cardinality(DOMAIN chunks) |-> chunks[k - 1]])

(* --------------------- server: chunk session routes ------------------- *)
\* fs.existsSync(path.join(CHUNK_STORAGE, uploadId))
DirExists(dirs, u) == u \in DOMAIN dirs /\ dirs[u].exists

\* fs.existsSync(path.join(chunkDir, `chunk_${i}`))
ChunkExists(dirs, u, i) == DirExists(dirs, u) /\ i \in DOMAIN dirs[u].chunks

\* `${Date.now()}-${Math.random().toString(36).substring(7)}`: an id no open
\* session has (ids are opaque, so the least free one stands for all)
FreshUploadId(dirs) == SetMin({u \in DOMAIN dirs : ~dirs[u].exists})

\* the same expression evaluated in the millisecond of an earlier init and
\* with the same Math.random() suffix: the id of a session that is open; the
\* route does not look whether the directory exists
RepeatedUploadIds(dirs) == {u \in DOMAIN dirs : dirs[u].exists}

\* POST /traditional/chunk/init: the status of the response
InitStatus(n, t) == IF n = "" \/ t = 0 THEN 400 ELSE 200

\* fs.mkdirSync(chunkDir, { recursive: true })
MkChunkDir(dirs, u) ==
    IF dirs[u].exists THEN dirs ELSE [dirs EXCEPT ![u] = EmptyDir]

\* a route that does not look for the session directory
ChunkUploadStatusMutant(dirs, u, idx) == IF u = 0 THEN 400 ELSE 200

\* POST /traditional/chunk/upload: the status of the response
ChunkUploadStatus(dirs, u, idx) ==
    IF u = 0 THEN 400
    ELSE IF ~DirExists(dirs, u) THEN 404
    ELSE 200

\* a store that appends to a chunk file it already has
StoreChunkMutant(dirs, u, idx, payload) ==
    [dirs EXCEPT ![u].chunks =
        [i \in (DOMAIN @) \cup {idx} |->
            IF i # idx THEN @[i]
            ELSE IF idx \in DOMAIN @ THEN @[idx] \o payload ELSE payload]]

\* fs.renameSync(req.file.path, path.join(chunkDir, `chunk_${chunkIndex}`)):
\* the chunk file of that index is created or replaced
StoreChunk(dirs, u, idx, payload) ==
    [dirs EXCEPT ![u].chunks =
        [i \in (DOMAIN @) \cup {idx} |-> IF i = idx THEN payload ELSE @[i]]]

\* POST /traditional/chunk/upload: the chunk directories after the request
ChunkUploadDirs(dirs, u, idx, payload) ==
    IF ChunkUploadStatus(dirs, u, idx) = 200
    THEN StoreChunk(dirs, u, idx, payload)
    ELSE dirs

\* the loop of chunk/complete stops at the first i in 0..totalChunks-1 whose
\* chunk file does not exist
MissingIndices(dirs, u, t) == {i \in 0..(t - 1) : ~ChunkExists(dirs, u, i)}

LoopStop(dirs, u, t) ==
    IF MissingIndices(dirs, u, t) = {}
    THEN (IF t < 0 THEN 0 ELSE t)
    ELSE SetMin(MissingIndices(dirs, u, t))

\* a loop that runs from the last index down to the first
CompleteWritesMutant(dirs, u, t) ==
    [k \in 1..LoopStop(dirs, u, t) |-> dirs[u].chunks[LoopStop(dirs, u, t) - k]]

\* the chunkData passed to writeStream.write, in order
CompleteWrites(dirs, u, t) ==
    [k \in 1..LoopStop(dirs, u, t) |-> dirs[u].chunks[k - 1]]

\* POST /traditional/chunk/complete: the status of the response
CompleteStatus(dirs, u, n, t) ==
    IF u = 0 \/ n = "" \/ t = 0 THEN 400
    ELSE IF MissingIndices(dirs, u, t) # {} THEN 400
    ELSE 200

\* res.status(400).send(`Missing chunk ${i}`)
CompleteReported(dirs, u, n, t) ==
    IF u = 0 \/ n = "" \/ t = 0 \/ MissingIndices(dirs, u, t) = {}
    THEN {}
    ELSE {LoopStop(dirs, u, t)}

\* fs.createWriteStream(targetPath) followed by the writes of the loop: the
\* stream opens its file (flag 'w') and writes asynchronously, after the
\* handler has returned
CompleteStream(dirs, u, n, t) ==
    [target |-> n, opened |-> FALSE, pos |-> 0,
     writes |-> CompleteWrites(dirs, u, t)]

CompleteStreams(streams, dirs, u, n, t) ==
    IF u = 0 \/ n = "" \/ t = 0
    THEN streams
    ELSE Append(streams, CompleteStream(dirs, u, n, t))

\* a removal that leaves the directory in place
RmChunkDirMutant(dirs, u) == dirs

\* fs.rmSync(chunkDir, { recursive: true, force: true })
RmChunkDir(dirs, u) ==
    IF u \in DOMAIN dirs THEN [dirs EXCEPT ![u] = NoDir] ELSE dirs

\* a complete that disposes the session whatever it answers
CompleteDirsMutant(dirs, u, n, t) == RmChunkDir(dirs, u)

\* POST /traditional/chunk/complete: the chunk directories after the request
CompleteDirs(dirs, u, n, t) ==
    IF CompleteStatus(dirs, u, n, t) = 200 THEN RmChunkDir(dirs, u) ELSE dirs

\* the object an acknowledged complete is to leave under its target name
CompleteObject(dirs, u, t) == Concat(CompleteWrites(dirs, u, t))

(* ----------------------- server: chunk download ----------------------- *)
\* GET /traditional/chunk/download/:filename without end: the size probe
ProbeStatus(perm, n) == IF perm[n].present THEN 200 ELSE 404

\* res.json({ size: stat.size })
ProbeSize(perm, n) == Len(perm[n].data)

\* GET /traditional/chunk/download/:filename?start=&end=
RangeStatus(perm, n, start, end) ==
    IF ~perm[n].present THEN 404
    ELSE IF start > end THEN 500     \* createReadStream throws, caught
    ELSE 200

\* fs.createReadStream(filePath, { start, end }): bytes start..end, both
\* included, as far as the file reaches
RangeBody(data, start, end) == SubSeq(data, start + 1, Min(end + 1, Len(data)))

\* res.setHeader("Content-Length", end - start + 1)
RangeLength(start, end) == end - start + 1

\* GET /traditional/chunk/download/:filename: the status of the response
DownloadStatus(perm, n, start, end) ==
    IF end = NoEnd THEN ProbeStatus(perm, n)
    ELSE RangeStatus(perm, n, start, end)

(* ----------------------------- object store -------------------------- *)
\* the object names a job uses: file.name, and `${file.name}.part${chunkIndex}`
WholeKey(n) == <<n, -1>>
PartKey(n, i) == <<n, i>>
ObjectKeys == Names \X ((-1)..(MaxFileSize - 1))

\* a store that drops the body of a PUT
PutObjectMutant(b, key, bytes) == b

\* a PUT to a presigned URL stores the body under the object name, whole
PutObject(b, key, bytes) == [b EXCEPT ![key] = Stored(bytes)]

\* HEAD on a presigned GET URL
HeadStatus(b, key) == IF b[key].present THEN 200 ELSE 404

\* parseInt(headRes.headers["content-length"] || "0")
HeadSize(b, key) == Len(b[key].data)

\* GET with Range: bytes=start-end
GetRangeStatus(b, key, start, end) ==
    IF ~b[key].present THEN 404
    ELSE IF start >= Len(b[key].data) \/ start > end THEN 416
    ELSE 206

GetRangeBody(b, key, start, end) ==
    SubSeq(b[key].data, start + 1, Min(end + 1, Len(b[key].data)))

\* GET /videos: the objects of the bucket and the files of permanent storage
Listing(b, perm) ==
    {[name |-> k, size |-> Len(b[k].data), source |-> "minio"] :
        k \in {x \in ObjectKeys : b[x].present}}
    \cup
    {[name |-> WholeKey(n), size |-> Len(perm[n].data), source |-> "local"] :
        n \in {x \in Names : perm[x].present}}

(* ---------------------- server: whole-file routes --------------------- *)
\* POST /traditional/upload: the status of the response (f.name = "" stands
\* for a request without a file)
NormalUploadStatus(f) == IF f.name = "" THEN 400 ELSE 200

\* fs.renameSync(tempPath, targetPath): the file of that name is created or
\* replaced, whole
NormalUploadPermanent(perm, f) ==
    IF NormalUploadStatus(f) = 200
    THEN [perm EXCEPT ![f.name] = Stored(f.data)]
    ELSE perm

\* GET /traditional/video/:filename: const end = parts[1] ? parseInt(parts[1],
\* 10) : fileSize - 1
VideoEnd(perm, n, end) == IF end = NoEnd THEN Len(perm[n].data) - 1 ELSE end

\* GET /traditional/video/:filename: the status of the response; a start
\* beyond the end makes createReadStream throw before the head is written
VideoStatus(perm, n, start, end) ==
    IF ~perm[n].present THEN 404
    ELSE IF start = NoRange THEN 200
    ELSE IF start > VideoEnd(perm, n, end) THEN 500
    ELSE 206

\* the bytes piped into the response: fs.createReadStream(filePath) or
\* fs.createReadStream(filePath, { start, end }) of the file in permanent
\* storage
VideoBody(perm, n, start, end) ==
    IF start = NoRange THEN perm[n].data
    ELSE SubSeq(perm[n].data, start + 1,
                Min(VideoEnd(perm, n, end) + 1, Len(perm[n].data)))

\* handleNormalUpload of OptimizedMode: the PUT of the file to the presigned
\* URL of file.name
NormalUploadBucket(b, f) == PutObject(b, WholeKey(f.name), f.data)

\* DELETE /videos/:filename: the status of the response; the handler fails
\* only when fs.unlinkSync throws
DeleteStatus(perm, n, unlinkFails) ==
    IF perm[n].present /\ unlinkFails THEN 500 ELSE 200

\* if (fs.existsSync(localPath)) fs.unlinkSync(localPath)
DeletePermanent(perm, n, unlinkFails) ==
    IF perm[n].present /\ ~unlinkFails THEN [perm EXCEPT ![n] = Absent] ELSE perm

\* await minioClient.removeObject(BUCKET_NAME, filename).catch(() => {}):
\* reached unless unlinkSync threw; a rejection is dropped
DeleteBucket(b, perm, n, unlinkFails, minioFails) ==
    IF DeleteStatus(perm, n, unlinkFails) = 500 \/ minioFails
    THEN b
    ELSE [b EXCEPT ![WholeKey(n)] = Absent]

(* ------------------------- server: file system ------------------------ *)
\* fs.write(fd, chunk) at the position of the file descriptor: the bytes
\* replace what the file holds there and extend it, a gap reading as zeros
WriteAt(data, pos, chunk) ==
    [k \in 1..Max(Len(data), pos + Len(chunk)) |->
        IF k > pos /\ k <= pos + Len(chunk) THEN chunk[k - pos]
        ELSE IF k <= Len(data) THEN data[k]
        ELSE 0]

\* a stream performs its next queued call: the open (flag 'w': create or
\* truncate), then one write per step at the position of its own descriptor;
\* a stream with nothing left is closed
StreamStep(perm, s) ==
    IF ~s.opened
    THEN [perm EXCEPT ![s.target] = Stored(<<>>)]
    ELSE IF s.writes # <<>>
    THEN [perm EXCEPT ![s.target] = Stored(WriteAt(@.data, s.pos, Head(s.writes)))]
    ELSE perm

StreamAfterStep(s) ==
    IF ~s.opened THEN [s EXCEPT !.opened = TRUE]
    ELSE [s EXCEPT !.pos = @ + Len(Head(s.writes)), !.writes = Tail(@)]

StreamDone(s) == s.opened /\ s.writes = <<>>

(* -------------------- server: the handlers as steps ------------------- *)
NoHist == [rejected |-> FALSE, outOfOrder |-> FALSE, resubmitted |-> FALSE]

\* POST /traditional/chunk/init
ServeInit(n, t) ==
    IF InitStatus(n, t) = 200
    THEN LET u == FreshUploadId(chunkDirs) IN
         /\ chunkDirs' = MkChunkDir(chunkDirs, u)
         /\ declared' = [declared EXCEPT ![u] = t]
         /\ sessionHist' = [sessionHist EXCEPT ![u] = NoHist]
         /\ lastResp' = Resp("init", 200, u, {})
         /\ UNCHANGED <<permanent, writeStreams, committed, lastComplete>>
    ELSE /\ lastResp' = Resp("init", 400, 0, {})
         /\ UNCHANGED <<chunkDirs, permanent, writeStreams, declared,
                        sessionHist, committed, lastComplete>>

\* POST /traditional/chunk/init when the generated id is the id u of an open
\* session: mkdirSync with recursive: true finds the directory and returns
ServeInitRepeated(n, t, u) ==
    /\ chunkDirs' = MkChunkDir(chunkDirs, u)
    /\ lastResp' = Resp("init", InitStatus(n, t), u, {})
    /\ UNCHANGED <<permanent, writeStreams, declared, sessionHist, committed,
                   lastComplete>>

\* a free upload id exists (the model's ids are bounded)
CanInit(n, t) ==
    InitStatus(n, t) = 200 => \E u \in DOMAIN chunkDirs : ~chunkDirs[u].exists

\* POST /traditional/chunk/upload
ServeChunkUpload(u, idx, payload) ==
    /\ chunkDirs' = ChunkUploadDirs(chunkDirs, u, idx, payload)
    /\ sessionHist' =
          IF ChunkUploadStatus(chunkDirs, u, idx) = 200
          THEN [sessionHist EXCEPT
                  ![u].outOfOrder = @ \/ \E i \in DOMAIN chunkDirs[u].chunks : i > idx,
                  ![u].resubmitted = @ \/ idx \in DOMAIN chunkDirs[u].chunks]
          ELSE sessionHist
    /\ lastResp' = Resp("chunk", ChunkUploadStatus(chunkDirs, u, idx), u, {})
    /\ UNCHANGED <<permanent, writeStreams, declared, committed, lastComplete>>

\* POST /traditional/chunk/complete
ServeComplete(u, n, t) ==
    /\ writeStreams' = CompleteStreams(writeStreams, chunkDirs, u, n, t)
    /\ chunkDirs' = CompleteDirs(chunkDirs, u, n, t)
    /\ committed' =
          IF CompleteStatus(chunkDirs, u, n, t) = 200
          THEN [committed EXCEPT ![n] = Stored(CompleteObject(chunkDirs, u, t))]
          ELSE committed
    /\ lastComplete' =
          IF writeStreams' = writeStreams THEN lastComplete
          ELSE [lastComplete EXCEPT ![n] =
                  IF CompleteStatus(chunkDirs, u, n, t) = 200 THEN "ok" ELSE "failed"]
    /\ sessionHist' =
          IF DirExists(chunkDirs, u) /\ CompleteReported(chunkDirs, u, n, t) # {}
          THEN [sessionHist EXCEPT ![u].rejected = TRUE]
          ELSE sessionHist
    /\ lastResp' = Resp("complete", CompleteStatus(chunkDirs, u, n, t), u,
                        CompleteReported(chunkDirs, u, n, t))
    /\ UNCHANGED <<permanent, declared>>

\* GET /traditional/chunk/download/:filename
ServeDownload(n, start, end) ==
    /\ lastResp' = Resp("download", DownloadStatus(permanent, n, start, end), 0, {})
    /\ UNCHANGED <<chunkDirs, permanent, writeStreams, declared, sessionHist,
                   committed, lastComplete>>

\* the queue of write streams has room (the model's queue is bounded)
CanComplete == Len(writeStreams) < MaxStreams

(* ------------------------------- Init --------------------------------- *)
NoFile == [name |-> "", data |-> <<>>]
InitServer ==
    /\ chunkDirs = [u \in UploadIds |-> NoDir]
    /\ permanent = [n \in Names |-> Absent]
    /\ writeStreams = <<>>
    /\ declared = [u \in UploadIds |-> 0]
    /\ sessionHist = [u \in UploadIds |-> NoHist]
    /\ committed = [n \in Names |-> Absent]
    /\ lastComplete = [n \in Names |-> "none"]
    /\ lastResp = NoResp
    /\ requests = 0
    /\ faults = 0

InitClient ==
    /\ uploading = FALSE
    /\ uploadProgress = 0
    /\ status = "Idle"
    /\ stats = -1
    /\ videoUrl = ""
    /\ selected = ""
    /\ jobs = <<>>
    /\ libraryLoad = ""
    /\ downloading = FALSE
    /\ downloads = <<>>
    /\ downloadStats = -1
    /\ saved = <<>>
    /\ split = <<>>

InitApi ==
    /\ mode = "api"
    /\ chunkSize = 1
    /\ bucket = [k \in ObjectKeys |-> Absent]
    /\ InitServer
    /\ InitClient
    /\ file = NoFile

(* --------------------- actions: raw HTTP requests --------------------- *)
ApiInit(n, t) ==
    /\ mode = "api"
    /\ requests < MaxRequests
    /\ requests' = requests + 1
    /\ UNCHANGED faults
    /\ CanInit(n, t)
    /\ ServeInit(n, t)
    /\ UNCHANGED <<mode, chunkSize, bucket, uploadVars, downloadVars, split>>

ApiChunkUpload(u, idx, payload) ==
    /\ mode = "api"
    /\ requests < MaxRequests
    /\ requests' = requests + 1
    /\ UNCHANGED faults
    /\ ServeChunkUpload(u, idx, payload)
    /\ UNCHANGED <<mode, chunkSize, bucket, uploadVars, downloadVars, split>>

ApiComplete(u, n, t) ==
    /\ mode = "api"
    /\ requests < MaxRequests
    /\ requests' = requests + 1
    /\ UNCHANGED faults
    /\ CanComplete
    /\ ServeComplete(u, n, t)
    /\ UNCHANGED <<mode, chunkSize, bucket, uploadVars, downloadVars, split>>

ApiDownload(n, start, end) ==
    /\ mode = "api"
    /\ requests < MaxRequests
    /\ requests' = requests + 1
    /\ UNCHANGED faults
    /\ ServeDownload(n, start, end)
    /\ UNCHANGED <<mode, chunkSize, bucket, uploadVars, downloadVars, split>>

\* the streams without stream k
Without(streams, k) ==
    SubSeq(streams, 1, k - 1) \o SubSeq(streams, k + 1, Len(streams))

\* the file system performs the next queued call of write stream k; the
\* streams are independent of one another
FlushWrite(k) ==
    /\ k \in 1..Len(writeStreams)
    /\ LET s == writeStreams[k] IN
        /\ permanent' = StreamStep(permanent, s)
        /\ writeStreams' = IF StreamDone(StreamAfterStep(s))
                           THEN Without(writeStreams, k)
                           ELSE [writeStreams EXCEPT ![k] = StreamAfterStep(s)]
    /\ UNCHANGED <<mode, chunkSize, chunkDirs, declared, sessionHist, committed,
                   lastComplete, lastResp, bucket, requests, faults, uploadVars,
                   downloadVars, split>>

(* ------------------- actions: the upload components ------------------- *)
Cur == Len(jobs)

\* handleFileChange; a behaviour works with one file, which the user may
\* select again
SelectFile(f) ==
    /\ mode \in {"proxied", "direct"}
    /\ file \in {NoFile, f}
    /\ file' = f
    /\ stats' = -1
    /\ videoUrl' = ""
    /\ uploadProgress' = 0
    /\ UNCHANGED <<mode, chunkSize, serverVars, bucket, requests, faults, uploading,
                   status, selected, libraryLoad, jobs, downloadVars, split>>

\* the status the catch block of handleChunkedUpload shows when the upload of
\* file n failed at part i: one text, whatever was thrown
FailureStatus(n, i) == "Chunked Upload Failed"

\* a handler whose catch block is not followed by a finally block
UploadFailedMutant ==
    /\ status' = "Chunked Upload Failed"
    /\ UNCHANGED <<file, uploading, uploadProgress, stats, videoUrl, selected,
                   libraryLoad>>

\* the catch and finally blocks of handleChunkedUpload
UploadFailed ==
    /\ status' = "Chunked Upload Failed"
    /\ uploading' = FALSE
    /\ UNCHANGED <<file, uploadProgress, stats, videoUrl, selected, libraryLoad>>

\* TraditionalMode.handleChunkedUpload up to its first await
TradStartUpload ==
    /\ mode = "proxied"
    /\ file # NoFile /\ ~uploading
    /\ Len(jobs) + Len(downloads) < MaxCalls
    /\ uploading' = TRUE
    /\ uploadProgress' = 0
    /\ status' = "Initializing chunked upload..."
    /\ jobs' = Append(jobs, NewJob(file, chunkSize))
    /\ UNCHANGED <<mode, chunkSize, serverVars, bucket, requests, faults, file, stats,
                   videoUrl, selected, libraryLoad, downloadVars, split>>

\* the response of chunk/init arrives
TradInitResponse ==
    /\ mode = "proxied"
    /\ Cur > 0 /\ jobs[Cur].pc = "init"
    /\ LET job == jobs[Cur] IN
        /\ CanInit(job.file.name, job.total)
        /\ ServeInit(job.file.name, job.total)
        /\ IF InitStatus(job.file.name, job.total) = 200
           THEN /\ jobs' = [jobs EXCEPT ![Cur] =
                    AfterInit([job EXCEPT !.uploadId = FreshUploadId(chunkDirs)])]
                /\ status' = "Uploading chunks in parallel..."
                /\ UNCHANGED <<file, uploading, uploadProgress, stats, videoUrl,
                               selected, libraryLoad>>
           ELSE /\ jobs' = [jobs EXCEPT ![Cur].pc = "failed"]
                /\ UploadFailed
    /\ UNCHANGED <<mode, chunkSize, bucket, requests, faults, downloadVars, split>>

\* the init request fails in transport, before or after the server handled it
TradInitFault(reached) ==
    /\ faults < MaxFaults
    /\ faults' = faults + 1
    /\ mode = "proxied"
    /\ Cur > 0 /\ jobs[Cur].pc = "init"
    /\ IF reached
       THEN /\ CanInit(jobs[Cur].file.name, jobs[Cur].total)
            /\ ServeInit(jobs[Cur].file.name, jobs[Cur].total)
       ELSE UNCHANGED serverVars
    /\ jobs' = [jobs EXCEPT ![Cur].pc = "failed", ![Cur].faulted = TRUE]
    /\ UploadFailed
    /\ UNCHANGED <<mode, chunkSize, bucket, requests, downloadVars, split>>

\* what a settled uploadChunk(i) of job j does to the component; finalStatus
\* is the status set between the last window and the finalize request
AfterChunk(j, i, ok, faulted, finalStatus) ==
    LET job == jobs[j]
        next == IF ok THEN AfterPartDone(job, i) ELSE PartFailed(job, i)
    IN  /\ jobs' = [jobs EXCEPT ![j] = [next EXCEPT !.faulted = @ \/ faulted]]
        /\ IF ok
           THEN /\ uploadProgress' = Percent(job.completed + 1, job.total)
                /\ status' = IF next.pc = "finalize" THEN finalStatus ELSE status
                /\ UNCHANGED <<file, uploading, stats, videoUrl, selected, libraryLoad>>
           ELSE IF job.pc = "window"
                THEN UploadFailed
                ELSE UNCHANGED uiVars

\* the response of chunk/upload for part i of job j arrives
TradChunkResponse(j, i) ==
    /\ mode = "proxied"
    /\ j \in 1..Len(jobs) /\ i \in InFlight(jobs[j])
    /\ LET job == jobs[j] IN
        /\ ServeChunkUpload(job.uploadId, i, ChunkOf(job.file.data, i, chunkSize))
        /\ AfterChunk(j, i, ChunkUploadStatus(chunkDirs, job.uploadId, i) = 200,
                      FALSE, "Completing chunked upload...")
    /\ UNCHANGED <<mode, chunkSize, bucket, requests, faults, downloadVars, split>>

\* the upload of part i fails in transport, before or after the server stored it
TradChunkFault(j, i, reached) ==
    /\ faults < MaxFaults
    /\ faults' = faults + 1
    /\ mode = "proxied"
    /\ j \in 1..Len(jobs) /\ i \in InFlight(jobs[j])
    /\ LET job == jobs[j] IN
        /\ IF reached
           THEN ServeChunkUpload(job.uploadId, i, ChunkOf(job.file.data, i, chunkSize))
           ELSE UNCHANGED serverVars
        /\ AfterChunk(j, i, FALSE, TRUE, "")
    /\ UNCHANGED <<mode, chunkSize, bucket, requests, downloadVars, split>>

\* useEffect([initialFilename]) of TraditionalMode, run when onUploadSuccess
\* changed the selected filename: it sets the status once more
TradStatusAfter(name, s) ==
    IF selected # name THEN "Video loaded from library" ELSE s

\* the response of chunk/complete arrives
TradCompleteResponse ==
    /\ mode = "proxied"
    /\ Cur > 0 /\ jobs[Cur].pc = "finalize"
    /\ CanComplete
    /\ LET job == jobs[Cur] IN
        /\ ServeComplete(job.uploadId, job.file.name, job.total)
        /\ IF CompleteStatus(chunkDirs, job.uploadId, job.file.name, job.total) = 200
           THEN /\ jobs' = [jobs EXCEPT ![Cur].pc = "done"]
                /\ stats' = Len(job.file.data)
                /\ status' = TradStatusAfter(job.file.name, "Chunked Upload Complete!")
                /\ selected' = job.file.name
                /\ videoUrl' = job.file.name
                /\ uploading' = FALSE
                /\ UNCHANGED <<file, uploadProgress, libraryLoad>>
           ELSE /\ jobs' = [jobs EXCEPT ![Cur].pc = "failed"]
                /\ UploadFailed
    /\ UNCHANGED <<mode, chunkSize, bucket, requests, faults, downloadVars, split>>

\* the complete request fails in transport, before or after the server handled it
TradCompleteFault(reached) ==
    /\ faults < MaxFaults
    /\ faults' = faults + 1
    /\ mode = "proxied"
    /\ Cur > 0 /\ jobs[Cur].pc = "finalize"
    /\ IF reached
       THEN /\ CanComplete
            /\ ServeComplete(jobs[Cur].uploadId, jobs[Cur].file.name, jobs[Cur].total)
       ELSE UNCHANGED serverVars
    /\ jobs' = [jobs EXCEPT ![Cur].pc = "failed", ![Cur].faulted = TRUE]
    /\ UploadFailed
    /\ UNCHANGED <<mode, chunkSize, bucket, requests, downloadVars, split>>

NextTradUpload ==
    \/ \E f \in Files : SelectFile(f)
    \/ TradStartUpload
    \/ TradInitResponse
    \/ \E r \in BOOLEAN : TradInitFault(r)
    \/ \E j \in 1..MaxCalls, i \in 0..(MaxFileSize - 1) : TradChunkResponse(j, i)
    \/ \E j \in 1..MaxCalls, i \in 0..(MaxFileSize - 1), r \in BOOLEAN :
          TradChunkFault(j, i, r)
    \/ TradCompleteResponse
    \/ \E r \in BOOLEAN : TradCompleteFault(r)

(* ------------------ actions: the download components ------------------ *)
CurD == Len(downloads)

\* the catch and finally blocks of handleChunkedDownload
DownloadFailed ==
    /\ downloading' = FALSE
    /\ UNCHANGED <<downloadStats, saved>>

\* after the loop: the Blob, the stats and the click on the link
DownloadFinished(d) ==
    /\ downloading' = FALSE
    /\ downloadStats' = Len(BlobOf(d.chunks))
    /\ saved' = BlobOf(d.chunks)

\* what a step of download d does once its job record is `next`. A range
\* response that arrives after the call has failed writes into an array that
\* nothing reads any more: it has no step here and its part stays "sent"
DownloadStep(k, d, next) ==
    IF next.pc = "finalize" /\ d.pc # "finalize"
    THEN /\ downloads' = [downloads EXCEPT ![k] = [next EXCEPT !.pc = "done"]]
         /\ DownloadFinished(next)
    ELSE IF next.pc = "failed" /\ d.pc # "failed"
    THEN /\ downloads' = [downloads EXCEPT ![k] = next]
         /\ DownloadFailed
    ELSE /\ downloads' = [downloads EXCEPT ![k] = next]
         /\ UNCHANGED <<downloading, downloadStats, saved>>

\* TraditionalMode.handleChunkedDownload up to its first await
TradStartDownload ==
    /\ mode \in {"proxied", "replace"}
    /\ videoUrl # "" /\ ~downloading
    /\ file # NoFile \/ selected # ""
    /\ Len(jobs) + Len(downloads) < MaxCalls
    /\ downloading' = TRUE
    /\ downloads' = Append(downloads,
                       NewDownload(IF file # NoFile THEN file.name ELSE selected))
    /\ UNCHANGED <<mode, chunkSize, serverVars, bucket, requests, faults, uploadVars,
                   downloadStats, saved, split>>

\* the response of the size probe arrives
TradProbeResponse ==
    /\ mode \in {"proxied", "replace"}
    /\ CurD > 0 /\ downloads[CurD].pc = "probe"
    /\ LET d == downloads[CurD] IN
        DownloadStep(CurD, d,
            IF ProbeStatus(permanent, d.name) = 200
            THEN AfterProbe(d, ProbeSize(permanent, d.name), chunkSize)
            ELSE [d EXCEPT !.pc = "failed"])
    /\ UNCHANGED <<mode, chunkSize, serverVars, bucket, requests, faults, uploadVars, split>>

\* the size probe fails in transport
ProbeFault ==
    /\ faults < MaxFaults
    /\ faults' = faults + 1
    /\ mode \in {"proxied", "direct", "replace"}
    /\ CurD > 0 /\ downloads[CurD].pc = "probe"
    /\ DownloadStep(CurD, downloads[CurD],
                    [downloads[CurD] EXCEPT !.pc = "failed", !.faulted = TRUE])
    /\ UNCHANGED <<mode, chunkSize, serverVars, bucket, requests, uploadVars, split>>

\* the response of the range request for part i of download k arrives; a body
\* shorter than its Content-Length is an error to a strict HTTP client and a
\* short body to a lenient one
TradPartResponse(k, i, lenient) ==
    /\ mode \in {"proxied", "replace"}
    /\ k \in 1..Len(downloads) /\ i \in InFlight(downloads[k])
    /\ downloads[k].pc = "window"
    /\ LET d == downloads[k]
           start == ChunkStart(i, chunkSize)
           end == RangeEnd(i, chunkSize, d.size)
           body == RangeBody(permanent[d.name].data, start, end)
       IN  DownloadStep(k, d,
             IF RangeStatus(permanent, d.name, start, end) = 200
                /\ (lenient \/ Len(body) = RangeLength(start, end))
             THEN AfterSlotFilled(d, i, body)
             ELSE PartFailed(d, i))
    /\ UNCHANGED <<mode, chunkSize, serverVars, bucket, requests, faults, uploadVars, split>>

\* the range request for part i of download k fails in transport
PartFault(k, i) ==
    /\ faults < MaxFaults
    /\ faults' = faults + 1
    /\ mode \in {"proxied", "direct", "replace"}
    /\ k \in 1..Len(downloads) /\ i \in InFlight(downloads[k])
    /\ downloads[k].pc = "window"
    /\ DownloadStep(k, downloads[k],
                    [PartFailed(downloads[k], i) EXCEPT !.faulted = TRUE])
    /\ UNCHANGED <<mode, chunkSize, serverVars, bucket, requests, uploadVars, split>>

NextTradDownload ==
    \/ TradStartDownload
    \/ TradProbeResponse
    \/ ProbeFault
    \/ \E k \in 1..MaxCalls, i \in 0..(MaxFileSize - 1), l \in BOOLEAN :
          TradPartResponse(k, i, l)
    \/ \E k \in 1..MaxCalls, i \in 0..(MaxFileSize - 1) : PartFault(k, i)

InitProxied ==
    /\ mode = "proxied"
    /\ chunkSize \in ChunkSizes
    /\ bucket = [k \in ObjectKeys |-> Absent]
    /\ InitServer
    /\ InitClient
    /\ file = NoFile

NextProxied ==
    \/ NextTradUpload
    \/ NextTradDownload
    \/ \E k \in 1..MaxStreams : FlushWrite(k)

SpecProxied == InitProxied /\ [][NextProxied]_vars

(* ------------------- actions: the OptimizedMode component ------------- *)
\* OptimizedMode.handleChunkedUpload up to its first await: the first window
\* is launched at once, there is no session to open
OptStartUpload ==
    /\ mode = "direct"
    /\ file # NoFile /\ ~uploading
    /\ Len(jobs) + Len(downloads) < MaxCalls
    /\ uploading' = TRUE
    /\ uploadProgress' = 0
    /\ status' = "Uploading chunks in parallel..."
    /\ jobs' = Append(jobs, AfterInit(NewJob(file, chunkSize)))
    /\ UNCHANGED <<mode, chunkSize, serverVars, bucket, requests, faults, file, stats,
                   videoUrl, selected, libraryLoad, downloadVars, split>>

\* get-upload-url and the PUT of part i of job j both succeed
OptChunkResponse(j, i) ==
    /\ mode = "direct"
    /\ j \in 1..Len(jobs) /\ i \in InFlight(jobs[j])
    /\ bucket' = PutObject(bucket, PartKey(jobs[j].file.name, i),
                           ChunkOf(jobs[j].file.data, i, chunkSize))
    /\ AfterChunk(j, i, TRUE, FALSE, status)
    /\ UNCHANGED <<mode, chunkSize, serverVars, requests, faults, downloadVars, split>>

\* get-upload-url or the PUT of part i fails, the PUT before or after the
\* store took the object
OptChunkFault(j, i, reached) ==
    /\ faults < MaxFaults
    /\ faults' = faults + 1
    /\ mode = "direct"
    /\ j \in 1..Len(jobs) /\ i \in InFlight(jobs[j])
    /\ bucket' = IF reached
                 THEN PutObject(bucket, PartKey(jobs[j].file.name, i),
                                ChunkOf(jobs[j].file.data, i, chunkSize))
                 ELSE bucket
    /\ AfterChunk(j, i, FALSE, TRUE, "")
    /\ UNCHANGED <<mode, chunkSize, serverVars, requests, downloadVars, split>>

\* the request that finalizes a chunked upload of OptimizedMode: the PUT of
\* the whole file to the presigned URL of file.name; it carries no
\* (index, token) pair of the parts uploaded before
OptFinalizeRequest(job) ==
    [method |-> "PUT", key |-> WholeKey(job.file.name), body |-> job.file.data,
     parts |-> <<>>]

\* get-upload-url for file.name and the PUT of the whole file succeed; the
\* handler goes on to its await of get-download-url, and the useEffect on
\* initialFilename starts loadFromLibrary when the name changed
OptFinalResponse ==
    /\ mode = "direct"
    /\ Cur > 0 /\ jobs[Cur].pc = "finalize"
    /\ LET job == jobs[Cur] IN
        /\ bucket' = PutObject(bucket, OptFinalizeRequest(job).key,
                               OptFinalizeRequest(job).body)
        /\ jobs' = [jobs EXCEPT ![Cur].pc = "geturl"]
        /\ stats' = Len(job.file.data)
        /\ selected' = job.file.name
        /\ status' = IF selected # job.file.name
                     THEN "Fetching URL from library..."
                     ELSE "Chunked Upload Complete!"
        /\ libraryLoad' = IF selected # job.file.name THEN job.file.name
                          ELSE libraryLoad
    /\ UNCHANGED <<mode, chunkSize, serverVars, requests, faults, file, uploading,
                   uploadProgress, videoUrl, downloadVars, split>>

\* get-upload-url for file.name or the PUT of the whole file fails
OptFinalFault(reached) ==
    /\ faults < MaxFaults
    /\ faults' = faults + 1
    /\ mode = "direct"
    /\ Cur > 0 /\ jobs[Cur].pc = "finalize"
    /\ bucket' = IF reached
                 THEN PutObject(bucket, OptFinalizeRequest(jobs[Cur]).key,
                                OptFinalizeRequest(jobs[Cur]).body)
                 ELSE bucket
    /\ jobs' = [jobs EXCEPT ![Cur].pc = "failed", ![Cur].faulted = TRUE]
    /\ UploadFailed
    /\ UNCHANGED <<mode, chunkSize, serverVars, requests, downloadVars, split>>

\* the response of get-download-url arrives: setVideoUrl and the finally block
OptUrlResponse ==
    /\ mode = "direct"
    /\ Cur > 0 /\ jobs[Cur].pc = "geturl"
    /\ jobs' = [jobs EXCEPT ![Cur].pc = "done"]
    /\ videoUrl' = jobs[Cur].file.name
    /\ uploading' = FALSE
    /\ UNCHANGED <<mode, chunkSize, serverVars, bucket, requests, faults, file,
                   uploadProgress, status, stats, selected, libraryLoad,
                   downloadVars, split>>

\* get-download-url fails: the catch block runs after the object was stored
OptUrlFault ==
    /\ faults < MaxFaults
    /\ faults' = faults + 1
    /\ mode = "direct"
    /\ Cur > 0 /\ jobs[Cur].pc = "geturl"
    /\ jobs' = [jobs EXCEPT ![Cur].pc = "failed", ![Cur].faulted = TRUE]
    /\ UploadFailed
    /\ UNCHANGED <<mode, chunkSize, serverVars, bucket, requests, downloadVars, split>>

\* loadFromLibrary settles: the URL and the status, or "Library load failed"
LibraryLoaded(ok) ==
    /\ mode = "direct"
    /\ libraryLoad # ""
    /\ libraryLoad' = ""
    /\ videoUrl' = IF ok THEN libraryLoad ELSE videoUrl
    /\ status' = IF ok THEN "Video loaded from library" ELSE "Library load failed"
    /\ UNCHANGED <<mode, chunkSize, serverVars, bucket, requests, faults, file, uploading,
                   uploadProgress, stats, selected, jobs, downloadVars, split>>

\* OptimizedMode.handleChunkedDownload up to its first await
OptStartDownload ==
    /\ mode = "direct"
    /\ videoUrl # "" /\ ~downloading
    /\ Len(jobs) + Len(downloads) < MaxCalls
    /\ downloading' = TRUE
    /\ downloads' = Append(downloads, NewDownload(videoUrl))
    /\ UNCHANGED <<mode, chunkSize, serverVars, bucket, requests, faults, uploadVars,
                   downloadStats, saved, split>>

\* the response of axios.head(videoUrl) arrives
OptProbeResponse ==
    /\ mode = "direct"
    /\ CurD > 0 /\ downloads[CurD].pc = "probe"
    /\ LET d == downloads[CurD] IN
        DownloadStep(CurD, d,
            IF HeadStatus(bucket, WholeKey(d.name)) = 200
            THEN AfterProbe(d, HeadSize(bucket, WholeKey(d.name)), chunkSize)
            ELSE [d EXCEPT !.pc = "failed"])
    /\ UNCHANGED <<mode, chunkSize, serverVars, bucket, requests, faults, uploadVars, split>>

\* the response of the Range request for part i of download k arrives
OptPartResponse(k, i) ==
    /\ mode = "direct"
    /\ k \in 1..Len(downloads) /\ i \in InFlight(downloads[k])
    /\ downloads[k].pc = "window"
    /\ LET d == downloads[k]
           start == ChunkStart(i, chunkSize)
           end == RangeEnd(i, chunkSize, d.size)
       IN  DownloadStep(k, d,
             IF GetRangeStatus(bucket, WholeKey(d.name), start, end) = 206
             THEN AfterSlotFilled(d, i,
                      GetRangeBody(bucket, WholeKey(d.name), start, end))
             ELSE PartFailed(d, i))
    /\ UNCHANGED <<mode, chunkSize, serverVars, bucket, requests, faults, uploadVars, split>>

NextDirect ==
    \/ \E f \in Files : SelectFile(f)
    \/ OptStartUpload
    \/ \E j \in 1..MaxCalls, i \in 0..(MaxFileSize - 1) : OptChunkResponse(j, i)
    \/ \E j \in 1..MaxCalls, i \in 0..(MaxFileSize - 1), r \in BOOLEAN :
          OptChunkFault(j, i, r)
    \/ OptFinalResponse
    \/ \E r \in BOOLEAN : OptFinalFault(r)
    \/ OptUrlResponse
    \/ OptUrlFault
    \/ \E ok \in BOOLEAN : LibraryLoaded(ok)
    \/ OptStartDownload
    \/ OptProbeResponse
    \/ ProbeFault
    \/ \E k \in 1..MaxCalls, i \in 0..(MaxFileSize - 1) : OptPartResponse(k, i)
    \/ \E k \in 1..MaxCalls, i \in 0..(MaxFileSize - 1) : PartFault(k, i)

InitDirect ==
    /\ mode = "direct"
    /\ chunkSize \in ChunkSizes
    /\ bucket = [k \in ObjectKeys |-> Absent]
    /\ InitServer
    /\ InitClient
    /\ file = NoFile

SpecDirect == InitDirect /\ [][NextDirect]_vars

NextApi ==
    \/ \E n \in FilenameInputs, t \in TotalInputs : ApiInit(n, t)
    \/ \E u \in UploadIdInputs, idx \in IndexInputs : \E p \in PayloadsOf(idx) :
          ApiChunkUpload(u, idx, p)
    \/ \E u \in UploadIdInputs, n \in FilenameInputs, t \in TotalInputs :
          ApiComplete(u, n, t)
    \/ \E n \in Names, start \in StartInputs, end \in EndInputs :
          ApiDownload(n, start, end)
    \/ \E k \in 1..MaxStreams : FlushWrite(k)

SpecApi == InitApi /\ [][NextApi]_vars

(* ------------------------- the splitter alone ------------------------- *)
InitSplit ==
    /\ mode = "split"
    /\ chunkSize \in 1..MaxSplitChunk
    /\ bucket = [k \in ObjectKeys |-> Absent]
    /\ InitServer
    /\ InitClient
    /\ file \in {FileOf(1, size) : size \in 0..MaxSplitSize}

\* every uploadChunk(i) of one job: the chunk each call slices off the file
Split ==
    /\ mode = "split"
    /\ mode' = "parts"
    /\ split' = [k \in 1..TotalChunks(Len(file.data), chunkSize) |->
                   ChunkOf(file.data, k - 1, chunkSize)]
    /\ UNCHANGED <<chunkSize, serverVars, bucket, requests, faults, uploadVars,
                   downloadVars>>

NextSplit == Split

SpecSplit == InitSplit /\ [][NextSplit]_vars

(* ------------------ actions: the whole-file routes -------------------- *)
InitLibrary ==
    /\ mode = "library"
    /\ chunkSize = 1
    /\ bucket = [k \in ObjectKeys |-> Absent]
    /\ InitServer
    /\ InitClient
    /\ file = NoFile

\* POST /traditional/upload with the file f
LibUpload(f) ==
    /\ mode = "library"
    /\ requests < MaxRequests
    /\ requests' = requests + 1
    /\ permanent' = NormalUploadPermanent(permanent, f)
    /\ lastResp' = Resp("upload", NormalUploadStatus(f), 0, {})
    /\ UNCHANGED <<mode, chunkSize, chunkDirs, writeStreams, declared, sessionHist,
                   committed, lastComplete, bucket, faults, uploadVars,
                   downloadVars, split>>

\* PUT of the file f to the presigned URL of its name
LibPut(f) ==
    /\ mode = "library"
    /\ requests < MaxRequests
    /\ requests' = requests + 1
    /\ bucket' = NormalUploadBucket(bucket, f)
    /\ lastResp' = Resp("put", 200, 0, {})
    /\ UNCHANGED <<mode, chunkSize, chunkDirs, permanent, writeStreams, declared,
                   sessionHist, committed, lastComplete, faults, uploadVars,
                   downloadVars, split>>

\* DELETE /videos/:filename; unlinkSync or removeObject may fail
LibDelete(n, unlinkFails, minioFails) ==
    /\ mode = "library"
    /\ requests < MaxRequests
    /\ requests' = requests + 1
    /\ IF unlinkFails \/ minioFails
       THEN faults < MaxFaults /\ faults' = faults + 1
       ELSE UNCHANGED faults
    /\ unlinkFails => permanent[n].present
    /\ minioFails => DeleteStatus(permanent, n, unlinkFails) = 200
    /\ permanent' = DeletePermanent(permanent, n, unlinkFails)
    /\ bucket' = DeleteBucket(bucket, permanent, n, unlinkFails, minioFails)
    /\ lastResp' = Resp("delete", DeleteStatus(permanent, n, unlinkFails), 0, {})
    /\ UNCHANGED <<mode, chunkSize, chunkDirs, writeStreams, declared, sessionHist,
                   committed, lastComplete, uploadVars, downloadVars, split>>

\* GET /traditional/video/:filename, with or without a Range header
LibVideo(n, start, end) ==
    /\ mode = "library"
    /\ requests < MaxRequests
    /\ requests' = requests + 1
    /\ lastResp' = Resp("video", VideoStatus(permanent, n, start, end), 0, {})
    /\ UNCHANGED <<mode, chunkSize, chunkDirs, permanent, writeStreams, declared,
                   sessionHist, committed, lastComplete, bucket, faults, uploadVars,
                   downloadVars, split>>

NextLibrary ==
    \/ \E f \in Files \cup {NoFile} : LibUpload(f)
    \/ \E n \in Names, start \in RangeStartInputs, end \in EndInputs :
          LibVideo(n, start, end)
    \/ \E f \in Files : LibPut(f)
    \/ \E n \in Names, uf \in BOOLEAN, mf \in BOOLEAN : LibDelete(n, uf, mf)

SpecLibrary == InitLibrary /\ [][NextLibrary]_vars

(* ------------- actions: uploads of one name that overlap -------------- *)
SessionIds == 1..MaxOverlap

\* the bytes of chunk idx of the upload that owns session u: each upload
\* sends bytes of its own
SessionPayload(u, idx) == <<10 * u + idx + 1>>

InitSessions ==
    /\ mode = "sessions"
    /\ chunkSize = 1
    /\ bucket = [k \in ObjectKeys |-> Absent]
    /\ chunkDirs = [u \in SessionIds |-> NoDir]
    /\ permanent = [n \in Names |-> Absent]
    /\ writeStreams = <<>>
    /\ declared = [u \in SessionIds |-> 0]
    /\ sessionHist = [u \in SessionIds |-> NoHist]
    /\ committed = [n \in Names |-> Absent]
    /\ lastComplete = [n \in Names |-> "none"]
    /\ lastResp = NoResp
    /\ requests = 0
    /\ faults = 0
    /\ InitClient
    /\ file = NoFile

\* POST /traditional/chunk/init for a name, whatever sessions are open
SessInit(n, t) ==
    /\ mode = "sessions"
    /\ CanInit(n, t)
    /\ ServeInit(n, t)
    /\ UNCHANGED <<mode, chunkSize, bucket, requests, faults, uploadVars,
                   downloadVars, split>>

\* POST /traditional/chunk/init whose generated id repeats the id of an open
\* session
SessInitRepeated(n, t, u) ==
    /\ mode = "sessions"
    /\ InitStatus(n, t) = 200
    /\ u \in RepeatedUploadIds(chunkDirs)
    /\ ServeInitRepeated(n, t, u)
    /\ UNCHANGED <<mode, chunkSize, bucket, requests, faults, uploadVars,
                   downloadVars, split>>

\* POST /traditional/chunk/upload of chunk idx under session u, by the upload
\* that owns the session: every index below its totalChunks, once, in any order
SessChunkUpload(u, idx) ==
    /\ mode = "sessions"
    /\ DirExists(chunkDirs, u)
    /\ idx < declared[u] /\ ~ChunkExists(chunkDirs, u, idx)
    /\ ServeChunkUpload(u, idx, SessionPayload(u, idx))
    /\ UNCHANGED <<mode, chunkSize, bucket, requests, faults, uploadVars,
                   downloadVars, split>>

\* POST /traditional/chunk/complete of session u, by the upload that owns the
\* session, after all its parts were acknowledged
SessComplete(u, n) ==
    /\ mode = "sessions"
    /\ Len(writeStreams) < MaxOverlap
    /\ DirExists(chunkDirs, u)
    /\ MissingIndices(chunkDirs, u, declared[u]) = {}
    /\ ServeComplete(u, n, declared[u])
    /\ UNCHANGED <<mode, chunkSize, bucket, requests, faults, uploadVars,
                   downloadVars, split>>

NextSessions ==
    \/ \E n \in Names, t \in 1..MaxTotalChunks : SessInit(n, t)
    \/ \E n \in Names, t \in 1..MaxTotalChunks, u \in SessionIds :
          SessInitRepeated(n, t, u)
    \/ \E u \in SessionIds, idx \in IndexInputs : SessChunkUpload(u, idx)
    \/ \E u \in SessionIds, n \in Names : SessComplete(u, n)
    \/ \E k \in 1..MaxOverlap : FlushWrite(k)

SpecSessions == InitSessions /\ [][NextSessions]_vars

(* --------------------------- the whole system ------------------------- *)
(* ------------- downloads of an object that is replaced or deleted ------ *)
\* the versions of the object of one name: the stored one and the one another
\* client uploads over it
ObjectVersions == {1, 2}

\* the session of the other client, with every part of its file received
FullSession(data, c) ==
    [exists |-> TRUE,
     chunks |-> [i \in 0..(TotalChunks(Len(data), c) - 1) |-> ChunkOf(data, i, c)]]

\* the object is stored and shown by the library; another client has uploaded
\* the parts of a second version of it and not yet completed
InitReplace ==
    /\ mode = "replace"
    /\ chunkSize \in ChunkSizes
    /\ bucket = [k \in ObjectKeys |-> Absent]
    /\ \E s1 \in 1..MaxFileSize, s2 \in 1..MaxFileSize :
          /\ permanent = [n \in Names |-> Stored(FileOf(1, s1).data)]
          /\ committed = [n \in Names |-> Stored(FileOf(1, s1).data)]
          /\ chunkDirs = [u \in UploadIds |-> FullSession(FileOf(2, s2).data, chunkSize)]
          /\ declared = [u \in UploadIds |-> TotalChunks(s2, chunkSize)]
    /\ writeStreams = <<>>
    /\ sessionHist = [u \in UploadIds |-> NoHist]
    /\ lastComplete = [n \in Names |-> "none"]
    /\ lastResp = NoResp
    /\ requests = 0
    /\ faults = 0
    /\ file = NoFile
    /\ uploading = FALSE
    /\ uploadProgress = 0
    /\ status = "Video loaded from library"
    /\ stats = -1
    /\ videoUrl \in Names
    /\ selected = videoUrl
    /\ jobs = <<>>
    /\ libraryLoad = ""
    /\ downloading = FALSE
    /\ downloads = <<>>
    /\ downloadStats = -1
    /\ saved = <<>>
    /\ split = <<>>

\* POST /traditional/chunk/complete of the other client
ReplaceComplete(u, n) ==
    /\ mode = "replace"
    /\ CanComplete
    /\ DirExists(chunkDirs, u)
    /\ ServeComplete(u, n, declared[u])
    /\ UNCHANGED <<mode, chunkSize, bucket, requests, faults, uploadVars,
                   downloadVars, split>>

\* DELETE /videos/:filename, sent while no write to the file is queued
ReplaceDelete(n) ==
    /\ mode = "replace"
    /\ writeStreams = <<>>
    /\ permanent[n].present
    /\ permanent' = DeletePermanent(permanent, n, FALSE)
    /\ bucket' = DeleteBucket(bucket, permanent, n, FALSE, FALSE)
    /\ lastResp' = Resp("delete", DeleteStatus(permanent, n, FALSE), 0, {})
    /\ UNCHANGED <<mode, chunkSize, chunkDirs, writeStreams, declared, sessionHist,
                   committed, lastComplete, requests, faults, uploadVars,
                   downloadVars, split>>

NextReplace ==
    \/ NextTradDownload
    \/ \E u \in UploadIds, n \in Names : ReplaceComplete(u, n)
    \/ \E n \in Names : ReplaceDelete(n)
    \/ \E k \in 1..MaxStreams : FlushWrite(k)

SpecReplace == InitReplace /\ [][NextReplace]_vars

Init ==
    \/ InitApi \/ InitProxied \/ InitDirect \/ InitSplit \/ InitLibrary
    \/ InitSessions \/ InitReplace

Next ==
    \/ NextApi \/ NextProxied \/ NextDirect \/ NextSplit \/ NextLibrary
    \/ NextSessions \/ NextReplace

Spec == Init /\ [][Next]_vars

\* the two components, each against the routes it uses
InitClients == InitProxied \/ InitDirect

NextClients == NextProxied \/ NextDirect

SpecClients == InitClients /\ [][NextClients]_vars

\* every network request settles: the response of a pending request arrives or
\* the request fails, and the file system performs the queued calls of a
\* write stream
RequestsSettle ==
    /\ WF_vars(TradInitResponse \/ \E r \in BOOLEAN : TradInitFault(r))
    /\ WF_vars(\E j \in 1..MaxCalls, i \in 0..(MaxFileSize - 1) :
                  \/ TradChunkResponse(j, i)
                  \/ \E r \in BOOLEAN : TradChunkFault(j, i, r))
    /\ WF_vars(TradCompleteResponse \/ \E r \in BOOLEAN : TradCompleteFault(r))
    /\ WF_vars(\E j \in 1..MaxCalls, i \in 0..(MaxFileSize - 1) :
                  \/ OptChunkResponse(j, i)
                  \/ \E r \in BOOLEAN : OptChunkFault(j, i, r))
    /\ WF_vars(OptFinalResponse \/ \E r \in BOOLEAN : OptFinalFault(r))
    /\ WF_vars(OptUrlResponse \/ OptUrlFault)
    /\ WF_vars(TradProbeResponse \/ OptProbeResponse \/ ProbeFault)
    /\ WF_vars(\E k \in 1..MaxCalls, i \in 0..(MaxFileSize - 1) :
                  \/ \E l \in BOOLEAN : TradPartResponse(k, i, l)
                  \/ OptPartResponse(k, i)
                  \/ PartFault(k, i))
    /\ WF_vars(\E k \in 1..MaxStreams : FlushWrite(k))

\* the two components when every request settles
SpecClientsLive == InitClients /\ [][NextClients]_vars /\ RequestsSettle

(* ======================= properties of the routes ====================== *)
\* the parts 0..t-1 of session u, in index order
PartsInOrder(dirs, u, t) == [k \in 1..t |-> dirs[u].chunks[k - 1]]

\* the stream the handler of this step created
NewStream == writeStreams'[Len(writeStreams')]

\* C2: every object visible under a name in permanent storage is a complete
\* object, the one the last acknowledged complete of that name produced; a
\* complete that fails leaves permanent storage as it was.
C2_OnlyCompleteObjectsVisible ==
    \A n \in Names : permanent[n].present => permanent[n] = committed[n]

\* C3: a complete on an open session that lacks an index of [0, totalChunks)
\* answers 400 and keeps the session with all its parts; a complete on a
\* session that has every index answers 200, writes parts 0..totalChunks-1 to
\* the target and disposes the session.
C3_IncompleteThenComplete ==
    [][\A u \in UploadIds, n \in Names, t \in 1..MaxTotalChunks :
          (/\ lastResp'.route = "complete" /\ lastResp'.uploadId = u
           /\ chunkDirs[u].exists
           /\ ApiComplete(u, n, t)) =>
              IF \E i \in 0..(t - 1) : i \notin DOMAIN chunkDirs[u].chunks
              THEN /\ lastResp'.status = 400
                   /\ chunkDirs' = chunkDirs
              ELSE /\ lastResp'.status = 200
                   /\ NewStream.target = n
                   /\ Concat(NewStream.writes) = Concat(PartsInOrder(chunkDirs, u, t))
                   /\ ~chunkDirs'[u].exists]_vars

\* C3 witness: a session whose complete was rejected for a missing part has
\* been completed, and the object is on disk with all its parts
C3_Witness ==
    \E u \in UploadIds :
        /\ sessionHist[u].rejected
        /\ lastResp = Resp("complete", 200, u, {})
        /\ writeStreams = <<>>
        /\ \E n \in Names : Len(permanent[n].data) >= 2

\* C9: a complete on an open session, opened with a positive totalChunks,
\* answers 200 exactly when every index below that totalChunks has been
\* received.
C9_CompleteIffDeclaredPartsReceived ==
    [][\A u \in UploadIds, n \in Names, t \in TotalInputs \ {0} :
          (/\ lastResp'.route = "complete" /\ lastResp'.uploadId = u
           /\ chunkDirs[u].exists /\ declared[u] >= 1
           /\ ApiComplete(u, n, t)) =>
              (lastResp'.status = 200
                  <=> \A i \in 0..(declared[u] - 1) : i \in DOMAIN chunkDirs[u].chunks)]_vars

\* C10: the part indices stored in a session, opened with a positive
\* totalChunks, all lie below that totalChunks (an upload with another index
\* is rejected and stores nothing).
C10_StoredIndicesInRange ==
    \A u \in UploadIds :
        (chunkDirs[u].exists /\ declared[u] >= 1) =>
            DOMAIN chunkDirs[u].chunks \subseteq 0..(declared[u] - 1)

\* C11: a chunk upload that names an upload id with no open session (never
\* initiated, or already completed) answers 404, creates no session and
\* stores no part.
C11_UnknownSessionRejected ==
    [][\A u \in UploadIds, idx \in IndexInputs : \A p \in PayloadsOf(idx) :
          (/\ lastResp'.route = "chunk" /\ lastResp'.uploadId = u
           /\ ~chunkDirs[u].exists
           /\ ApiChunkUpload(u, idx, p)) =>
              /\ lastResp'.status = 404
              /\ chunkDirs' = chunkDirs
              /\ permanent' = permanent /\ writeStreams' = writeStreams]_vars

\* C11 witness: no session was ever initiated and a chunk upload naming an
\* upload id has been answered 404
C11_Witness ==
    \E u \in UploadIds :
        /\ lastResp = Resp("chunk", 404, u, {})
        /\ \A v \in UploadIds : declared[v] = 0 /\ chunkDirs[v] = NoDir

\* C12: a chunk upload for an index the session already holds answers 200
\* and leaves the set of received indices as it was; when the payload is the
\* one already stored, the stored parts, and with them the answer and the
\* object of any later complete, are the same as after one submission.
C12_ResubmitIdempotent ==
    [][\A u \in UploadIds, idx \in IndexInputs : \A p \in PayloadsOf(idx) :
          (/\ lastResp'.route = "chunk" /\ lastResp'.uploadId = u
           /\ ChunkExists(chunkDirs, u, idx)
           /\ ApiChunkUpload(u, idx, p)) =>
              /\ lastResp'.status = 200
              /\ DOMAIN chunkDirs'[u].chunks = DOMAIN chunkDirs[u].chunks
              /\ p = chunkDirs[u].chunks[idx] =>
                    /\ chunkDirs'[u].chunks[idx] = p
                    /\ chunkDirs' = chunkDirs
                    /\ \A n \in Names, t \in 1..MaxTotalChunks :
                          /\ CompleteStatus(chunkDirs', u, n, t) =
                                CompleteStatus(chunkDirs, u, n, t)
                          /\ CompleteObject(chunkDirs', u, t) =
                                CompleteObject(chunkDirs, u, t)]_vars

\* C12 witness: a session that received an index twice has been completed and
\* its object, one copy of each part, is on disk
C12_Witness ==
    \E u \in UploadIds, n \in Names :
        /\ sessionHist[u].resubmitted
        /\ lastResp = Resp("complete", 200, u, {})
        /\ writeStreams = <<>>
        /\ permanent[n] = committed[n]
        /\ Len(permanent[n].data) = declared[u] /\ declared[u] >= 1

\* C13: an init with totalChunks <= 0 or an empty or missing filename answers
\* an error and allocates no session; any other init answers 200 with the id
\* of exactly one new, empty session.
C13_InitValidatesArguments ==
    [][\A n \in FilenameInputs, t \in TotalInputs :
          (lastResp'.route = "init" /\ ApiInit(n, t)) =>
              IF t <= 0 \/ n = ""
              THEN /\ lastResp'.status >= 400
                   /\ chunkDirs' = chunkDirs
              ELSE /\ lastResp'.status = 200
                   /\ ~chunkDirs[lastResp'.uploadId].exists
                   /\ chunkDirs' = [chunkDirs EXCEPT ![lastResp'.uploadId] = EmptyDir]]_vars

\* C14: a session comes into being, empty, only by an init that answers 200
\* with its id, and goes only by a complete that answers 200 for its id, which
\* removes it with all its parts; a chunk upload that follows that complete
\* answers 404; a complete for an id with no session removes nothing and
\* raises no server error.
C14_SessionLifecycle ==
    [][\A u \in UploadIds :
          /\ (~chunkDirs[u].exists /\ chunkDirs'[u].exists) =>
                (lastResp' = Resp("init", 200, u, {}) /\ chunkDirs'[u] = EmptyDir)
          /\ (chunkDirs[u].exists /\ ~chunkDirs'[u].exists) =>
                lastResp' = Resp("complete", 200, u, {})
          /\ (lastResp'.route = "complete" /\ lastResp'.uploadId = u
                 /\ lastResp'.status = 200) => chunkDirs'[u] = NoDir
          /\ \A idx \in IndexInputs : \A p \in PayloadsOf(idx) :
                (/\ lastResp = Resp("complete", 200, u, {})
                 /\ lastResp'.route = "chunk"
                 /\ ApiChunkUpload(u, idx, p)) =>
                    (lastResp'.status = 404 /\ chunkDirs' = chunkDirs)
          /\ \A n \in Names, t \in TotalInputs \ {0} :
                (/\ lastResp'.route = "complete" /\ lastResp'.uploadId = u
                 /\ ~chunkDirs[u].exists
                 /\ ApiComplete(u, n, t)) =>
                    /\ chunkDirs' = chunkDirs
                    /\ lastResp'.status = IF t < 0 THEN 200 ELSE 400]_vars

\* C14 witness: a session was initiated, received its parts and was completed,
\* and a chunk upload for its id has then been answered 404
C14_Witness ==
    \E u \in UploadIds, n \in Names :
        /\ declared[u] >= 1
        /\ Len(committed[n].data) >= 1
        /\ ~chunkDirs[u].exists
        /\ lastResp = Resp("chunk", 404, u, {})

\* C15: a download of bytes [start, end] answers 200 with exactly
\* end - start + 1 bytes, the bytes start..end of the stored object, when the
\* object holds them all; when the object is missing or shorter than end + 1
\* bytes, or start > end, it answers an error.
C15_RangeExactOrFails ==
    [][\A n \in Names, start \in StartInputs, end \in StartInputs :
          (lastResp'.route = "download" /\ ApiDownload(n, start, end)) =>
              IF /\ permanent[n].present
                 /\ start <= end /\ end + 1 <= Len(permanent[n].data)
              THEN /\ lastResp'.status = 200
                   /\ Len(RangeBody(permanent[n].data, start, end)) =
                         RangeLength(start, end)
                   /\ RangeBody(permanent[n].data, start, end) =
                         SubSeq(permanent[n].data, start + 1, end + 1)
              ELSE lastResp'.status >= 400]_vars

\* C24: once a complete for a name has been acknowledged with 200 (and no
\* later complete for that name has failed), the file of that name is there
\* in full: a size probe answers 200 with the length of the object the
\* complete was to write, the sum of the lengths of its parts.
C24_AckedObjectIsWhole ==
    \A n \in Names :
        (lastComplete[n] = "ok" /\ Len(committed[n].data) >= 1) =>
            /\ ProbeStatus(permanent, n) = 200
            /\ ProbeSize(permanent, n) = Len(committed[n].data)

\* C26: an init for a name that has an open session answers 200 with the id
\* of a new, empty session and leaves the open one as it was; a chunk upload
\* changes the parts of its own session only; a complete writes the parts of
\* its own session only, in index order; and once every write is done the
\* file of the name is the object of the complete acknowledged last.
C26_OverlappingSessions ==
    [][/\ \A n \in Names, t \in 1..MaxTotalChunks :
             (lastResp'.route = "init" /\ SessInit(n, t)) =>
                 /\ lastResp'.status = 200
                 /\ ~chunkDirs[lastResp'.uploadId].exists
                 /\ chunkDirs' = [chunkDirs EXCEPT ![lastResp'.uploadId] = EmptyDir]
       /\ \A u \in SessionIds, idx \in IndexInputs :
             (lastResp'.route = "chunk" /\ SessChunkUpload(u, idx)) =>
                 /\ chunkDirs'[u].chunks[idx] = SessionPayload(u, idx)
                 /\ \A v \in SessionIds \ {u} : chunkDirs'[v] = chunkDirs[v]
       /\ \A u \in SessionIds, n \in Names :
             (lastResp'.route = "complete" /\ SessComplete(u, n)) =>
                 /\ lastResp'.status = 200
                 /\ NewStream.writes =
                       [k \in 1..declared[u] |-> SessionPayload(u, k - 1)]
                 /\ \A v \in SessionIds \ {u} : chunkDirs'[v] = chunkDirs[v]
       /\ \A n \in Names :
             (writeStreams' = <<>> /\ committed'[n].present) =>
                 permanent'[n] = committed'[n]]_vars

\* C27: an init that answers 200 returns an id that no open session has, and
\* the session of that id starts empty: the new upload gets none of the parts
\* stored by an upload before it.
C27_InitIdIsFresh ==
    [][(lastResp'.route = "init" /\ lastResp'.status = 200) =>
          /\ ~chunkDirs[lastResp'.uploadId].exists
          /\ chunkDirs'[lastResp'.uploadId] = EmptyDir]_vars

\* C31: a complete on an open session that lacks parts answers with every
\* missing index of [0, totalChunks), not only the lowest one.
C31_ReportsEveryMissingIndex ==
    [][\A u \in UploadIds, n \in Names, t \in 1..MaxTotalChunks :
          (/\ lastResp'.route = "complete" /\ lastResp'.uploadId = u
           /\ chunkDirs[u].exists
           /\ MissingIndices(chunkDirs, u, t) # {}
           /\ ApiComplete(u, n, t)) =>
              /\ lastResp'.status = 400
              /\ lastResp'.missing = MissingIndices(chunkDirs, u, t)]_vars

(* ===================== properties of the components ==================== *)
\* C1: when no transport operation fails, every chunked upload succeeds and
\* every chunked download that follows it finishes with exactly the bytes of
\* the file, whatever its length, in the proxied and in the direct component.
C1_RoundTrip ==
    faults = 0 =>
        /\ \A j \in 1..Len(jobs) : jobs[j].pc # "failed"
        /\ \A k \in 1..Len(downloads) :
              /\ downloads[k].pc # "failed"
              /\ downloads[k].pc = "done" => BlobOf(downloads[k].chunks) = file.data

\* C4: once a part upload of a job has failed, the job has reported failure
\* and the listing shows nothing the job created: neither the target name
\* nor any per-part object (stated for a job that is the only call so far).
C4_NoArtifactAfterFailedUpload ==
    \A j \in 1..Len(jobs) :
        (Len(jobs) + Len(downloads) = 1 /\ jobs[j].failedAt >= 0) =>
            /\ status = "Chunked Upload Failed"
            /\ Listing(bucket, permanent) = {}

\* C5: an upload job or a download job never has more than PARALLEL_CHUNKS
\* part operations started and not yet settled.
C5_InFlightBounded ==
    /\ \A j \in 1..Len(jobs) : Cardinality(InFlight(jobs[j])) <= PARALLEL_CHUNKS
    /\ \A k \in 1..Len(downloads) :
          Cardinality(InFlight(downloads[k])) <= PARALLEL_CHUNKS

\* C5 witness: a job of more parts than the limit has a full window in flight
C5_Witness ==
    \E j \in 1..Len(jobs) :
        /\ jobs[j].total > PARALLEL_CHUNKS
        /\ Cardinality(InFlight(jobs[j])) = PARALLEL_CHUNKS

FailedParts(job) == {i \in DOMAIN job.parts : job.parts[i] = "failed"}

\* a job with a failed part has settled as failed, has not reached its
\* finalize step and has started no part of a later window
FailFast(job) ==
    FailedParts(job) # {} =>
        /\ job.pc = "failed"
        /\ ~job.finalized
        /\ job.failedAt \in FailedParts(job)
        /\ \A i \in DOMAIN job.parts :
              i \div PARALLEL_CHUNKS > job.failedAt \div PARALLEL_CHUNKS
                  => job.parts[i] = "idle"

\* C6: after a part operation of a window has failed, the job starts no part
\* of a later window, never issues its finalize step (the session of a proxied
\* upload stays open, no Blob is built), and settles as failed with the first
\* failure: the upload component shows the failure at that step, and a later
\* failure of a sibling does not replace the first.
C6_FailFast ==
    [][/\ \A j \in 1..Len(jobs') :
             /\ FailFast(jobs'[j])
             /\ (mode = "proxied" /\ FailedParts(jobs'[j]) # {})
                    => chunkDirs'[jobs'[j].uploadId].exists
       /\ \A k \in 1..Len(downloads') : FailFast(downloads'[k])
       /\ \A j \in 1..Len(jobs) :
             /\ jobs[j].failedAt >= 0 => jobs'[j].failedAt = jobs[j].failedAt
             /\ (jobs[j].failedAt < 0 /\ jobs'[j].failedAt >= 0) =>
                    /\ status' = "Chunked Upload Failed"
                    /\ ~uploading'
       /\ \A k \in 1..Len(downloads) :
             /\ downloads[k].failedAt >= 0
                    => downloads'[k].failedAt = downloads[k].failedAt
             /\ (downloads[k].failedAt < 0 /\ downloads'[k].failedAt >= 0)
                    => (~downloading' /\ saved' = saved)]_vars

\* C6 witness: a job of two windows failed in its first window, a second part
\* of that window failed later and a third one finished
C6_Witness ==
    \E j \in 1..Len(jobs) :
        /\ jobs[j].pc = "failed"
        /\ jobs[j].total > PARALLEL_CHUNKS
        /\ Cardinality(FailedParts(jobs[j])) >= 2
        /\ \E i \in DOMAIN jobs[j].parts : jobs[j].parts[i] = "done"
        /\ InFlight(jobs[j]) = {}

\* C7: whatever the order in which the parts arrived, an acknowledged complete
\* writes the parts of its session in increasing index order, which for the
\* upload component is the file itself; and a range response of a download
\* fills the slot of its own index with the bytes of that range and no other
\* slot.
C7_IndexOrderNotArrivalOrder ==
    [][/\ (/\ Len(writeStreams') > Len(writeStreams)
           /\ lastResp'.status = 200
           /\ DirExists(chunkDirs, lastResp'.uploadId)) =>
             /\ \A k \in 1..Len(NewStream.writes) :
                   NewStream.writes[k] = chunkDirs[lastResp'.uploadId].chunks[k - 1]
             /\ Len(NewStream.writes) =
                   Cardinality(DOMAIN chunkDirs[lastResp'.uploadId].chunks)
             /\ Concat(NewStream.writes) = jobs[Len(jobs)].file.data
       /\ \A k \in 1..Len(downloads) : \A i \in DOMAIN downloads[k].parts :
             (downloads[k].parts[i] = "sent" /\ downloads'[k].parts[i] = "done") =>
                 /\ downloads'[k].chunks[i] =
                       SubSeq(permanent[downloads[k].name].data,
                              i * chunkSize + 1,
                              Min(Min((i + 1) * chunkSize, downloads[k].size),
                                  Len(permanent[downloads[k].name].data)))
                 /\ \A o \in DOMAIN downloads[k].parts \ {i} :
                       downloads'[k].chunks[o] = downloads[k].chunks[o]]_vars

\* C7 witness: the parts of an upload reached the server out of index order,
\* the upload was acknowledged, and a download has slot 1 filled before slot 0
C7_Witness ==
    /\ \E u \in UploadIds : sessionHist[u].outOfOrder
    /\ \E j \in 1..Len(jobs) : jobs[j].pc = "done"
    /\ \E k \in 1..Len(downloads) :
          /\ downloads[k].total >= 2
          /\ downloads[k].parts[0] = "sent"
          /\ downloads[k].parts[1] = "done"
          /\ downloads[k].chunks[1] # <<>>

\* C19: when a part upload makes a chunked upload fail, the status the
\* component shows is the one for that file and that part, and is not the
\* status it shows for the failure of any other part of the file.
C19_FailureNamesPart ==
    [][\A j \in 1..Len(jobs) :
          (jobs[j].failedAt < 0 /\ jobs'[j].failedAt >= 0) =>
              /\ status' = FailureStatus(jobs'[j].file.name, jobs'[j].failedAt)
              /\ \A i \in DOMAIN jobs'[j].parts \ {jobs'[j].failedAt} :
                    FailureStatus(jobs'[j].file.name, i) # status']_vars

\* C16: a chunked download asks for no range before its size probe is
\* answered and then works with ceil(size / CHUNK_SIZE) slots; it hands over
\* a Blob, and records download stats, only at the step at which the last of
\* the indices [0, totalChunks) has been written into its slot, and the Blob
\* is the slots in index order; a download with a failed part never does.
C16_AssembleAfterAllParts ==
    [][/\ \A k \in 1..Len(downloads') :
             LET d == downloads'[k] IN
             /\ d.pc = "probe" => (d.parts = <<>> /\ d.chunks = <<>>)
             /\ d.total * chunkSize >= d.size /\ (d.total - 1) * chunkSize < d.size
             /\ d.pc # "probe" => DOMAIN d.chunks = 0..(d.total - 1)
             /\ d.pc = "done" => \A i \in 0..(d.total - 1) : d.parts[i] = "done"
       /\ \A k \in 1..Len(downloads) :
             /\ (downloads[k].pc # "done" /\ downloads'[k].pc = "done") =>
                    /\ saved' = Concat([i \in 1..downloads'[k].total |->
                                          downloads'[k].chunks[i - 1]])
                    /\ downloadStats' = Len(saved')
             /\ (FailedParts(downloads[k]) # {} \/ downloads[k].pc = "failed") =>
                    downloads'[k].pc = "failed"
       /\ (saved' # saved \/ downloadStats' # downloadStats) =>
             \E k \in 1..Len(downloads) :
                 downloads[k].pc # "done" /\ downloads'[k].pc = "done"]_vars

\* C16 witness: a download of at least two parts has handed over its Blob,
\* the bytes of the file, and recorded its size
C16_Witness ==
    \E k \in 1..Len(downloads) :
        /\ downloads[k].pc = "done"
        /\ downloads[k].total >= 2
        /\ saved = file.data
        /\ downloadStats = Len(file.data)

\* C17: a chunked upload succeeds exactly when the non-chunked upload of the
\* same file does, and then leaves in the backend of its component what the
\* non-chunked upload leaves: the object of the file's name with the file's
\* bytes, and nothing else (stated for an upload that is the only call so far
\* and has returned, with no transport failure and every write flushed).
C17_ChunkedSameAsNormal ==
    \A j \in 1..Len(jobs) :
        (/\ Len(jobs) + Len(downloads) = 1 /\ faults = 0
         /\ jobs[j].pc \in {"done", "failed"} /\ writeStreams = <<>>) =>
            /\ jobs[j].pc = "done" <=> NormalUploadStatus(jobs[j].file) = 200
            /\ permanent =
                  IF mode = "proxied"
                  THEN NormalUploadPermanent([n \in Names |-> Absent], jobs[j].file)
                  ELSE [n \in Names |-> Absent]
            /\ bucket =
                  IF mode = "direct"
                  THEN NormalUploadBucket([k \in ObjectKeys |-> Absent], jobs[j].file)
                  ELSE [k \in ObjectKeys |-> Absent]

\* C18: the step that finalizes a chunked upload of the direct component,
\* for a file of at least one part, is
\* a multipart completion that carries one (index, token) pair for every part,
\* in increasing index order; a finalization that does not carry them fails
\* and leaves the object store as it was.
C18_FinalizedByOrderedPairs ==
    [][\A j \in 1..Len(jobs) :
          (/\ mode = "direct" /\ jobs[j].total >= 1
           /\ jobs[j].pc = "finalize" /\ jobs'[j].pc # "finalize") =>
              LET r == OptFinalizeRequest(jobs[j]) IN
              \/ /\ r.method = "complete-multipart"
                 /\ Len(r.parts) = jobs[j].total
                 /\ \A k \in 1..Len(r.parts) : r.parts[k].index = k - 1
              \/ /\ jobs'[j].pc = "failed"
                 /\ bucket' = bucket]_vars

\* C21: no step of the direct component puts a byte into the server's
\* storage (chunk directories, permanent files, write streams): a part that
\* is acknowledged is, whole, the object of its part name in the bucket, the
\* finalize step leaves the file as the object of its name, and a download
\* takes its size and every slot from that object of the bucket.
C21_DirectBypassesServer ==
    [][mode = "direct" =>
          /\ chunkDirs' = chunkDirs /\ permanent' = permanent
          /\ writeStreams' = writeStreams
          /\ \A j \in 1..Len(jobs) :
                /\ \A i \in DOMAIN jobs[j].parts :
                      (jobs[j].parts[i] = "sent" /\ jobs'[j].parts[i] = "done") =>
                          bucket'[PartKey(jobs[j].file.name, i)] =
                              Stored(SubSeq(jobs[j].file.data, i * chunkSize + 1,
                                            Min((i + 1) * chunkSize,
                                                Len(jobs[j].file.data))))
                /\ (jobs[j].pc = "finalize" /\ jobs'[j].pc = "geturl") =>
                      bucket'[WholeKey(jobs[j].file.name)] = Stored(jobs[j].file.data)
          /\ \A k \in 1..Len(downloads) :
                /\ (downloads[k].pc = "probe" /\ downloads'[k].pc # "probe"
                       /\ downloads'[k].pc # "failed") =>
                      /\ bucket[WholeKey(downloads[k].name)].present
                      /\ downloads'[k].size =
                            Len(bucket[WholeKey(downloads[k].name)].data)
                /\ \A i \in DOMAIN downloads[k].parts :
                      (downloads[k].parts[i] = "sent"
                         /\ downloads'[k].parts[i] = "done") =>
                          downloads'[k].chunks[i] =
                              SubSeq(bucket[WholeKey(downloads[k].name)].data,
                                     i * chunkSize + 1,
                                     Min((i + 1) * chunkSize, downloads[k].size))]_vars

\* C21 witness: the direct component uploaded a file of two parts or more and
\* downloaded it again, and the server's storage holds nothing
C21_Witness ==
    /\ mode = "direct"
    /\ \E j \in 1..Len(jobs) : jobs[j].pc = "done" /\ jobs[j].total >= 2
    /\ \E k \in 1..Len(downloads) :
          downloads[k].pc = "done" /\ saved = file.data /\ Len(saved) >= 2
    /\ \A n \in Names : ~permanent[n].present
    /\ \A u \in UploadIds : ~chunkDirs[u].exists

\* the window an index belongs to
WindowOf(i) == i \div PARALLEL_CHUNKS

\* the parts that a step starts are one whole window [k*3, min((k+1)*3, total)),
\* every earlier window is done and every later one untouched
WindowLaunch(before, after) ==
    \A i \in DOMAIN after :
        (before[i] = "idle" /\ after[i] # "idle") =>
            /\ after[i] = "sent"
            /\ \A o \in DOMAIN after :
                  /\ WindowOf(o) = WindowOf(i) => (before[o] = "idle" /\ after[o] = "sent")
                  /\ WindowOf(o) < WindowOf(i) => after[o] = "done"
                  /\ WindowOf(o) > WindowOf(i) => after[o] = "idle"
            /\ {o \in DOMAIN after : WindowOf(o) = WindowOf(i)} =
                  (WindowOf(i) * PARALLEL_CHUNKS)..
                      (Min((WindowOf(i) + 1) * PARALLEL_CHUNKS,
                           Cardinality(DOMAIN after)) - 1)

\* the parts of a call before a step; a call that is new, or a download still
\* at its probe, has started nothing
PartsBefore(calls, k, after) ==
    IF k <= Len(calls) /\ DOMAIN calls[k].parts = DOMAIN after
    THEN calls[k].parts
    ELSE [i \in DOMAIN after |-> "idle"]

\* C23: the parts of an upload or download job are started window by window,
\* window k being the indices [k*3, min((k+1)*3, totalChunks)): a step that
\* starts a part starts every part of its window and no other, and only when
\* every part of every earlier window has completed successfully.
C23_WindowsInSequence ==
    [][/\ \A j \in 1..Len(jobs') :
             /\ DOMAIN jobs'[j].parts = 0..(jobs'[j].total - 1)
             /\ WindowLaunch(PartsBefore(jobs, j, jobs'[j].parts), jobs'[j].parts)
       /\ \A k \in 1..Len(downloads') :
             /\ DOMAIN downloads'[k].parts = 0..(downloads'[k].total - 1)
             /\ WindowLaunch(PartsBefore(downloads, k, downloads'[k].parts),
                             downloads'[k].parts)]_vars

\* C23 witness: a job of more than one window has its second window in
\* flight, every part of the first being done
C23_Witness ==
    \E j \in 1..Len(jobs) :
        /\ jobs[j].total > PARALLEL_CHUNKS
        /\ jobs[j].pc = "window"
        /\ \A i \in 0..(PARALLEL_CHUNKS - 1) : jobs[j].parts[i] = "done"
        /\ jobs[j].parts[PARALLEL_CHUNKS] = "sent"

\* C25: when the latest chunked upload of the proxied component has settled,
\* done or failed, the session it opened is gone from the chunk store with
\* all its parts.
C25_SessionGoneWhenJobSettles ==
    (mode = "proxied" /\ Cur > 0 /\ jobs[Cur].pc \in {"done", "failed"}
        /\ jobs[Cur].uploadId # 0) =>
            chunkDirs[jobs[Cur].uploadId] = NoDir

\* the steps of one part: started once, then settled once, done or failed
PartSteps == {<<"idle", "sent">>, <<"sent", "done">>, <<"sent", "failed">>}

\* C28: in an upload job a part index is started at most once: a part that
\* is in flight, done or failed is never started again; the job reaches its
\* finalize request at most once, with every index done exactly once, and a
\* job that has settled starts nothing more.
C28_PartsAttemptedOnce ==
    [][\A j \in 1..Len(jobs) :
          LET a == jobs[j]
              b == jobs'[j]
          IN  /\ DOMAIN b.parts = DOMAIN a.parts
              /\ \A i \in DOMAIN a.parts :
                    a.parts[i] # b.parts[i] => <<a.parts[i], b.parts[i]>> \in PartSteps
              /\ (a.pc # "finalize" /\ b.pc = "finalize") =>
                    /\ ~a.finalized
                    /\ \A i \in 0..(a.total - 1) : b.parts[i] = "done"
                    /\ b.completed = a.total
              /\ a.pc \in {"geturl", "done", "failed"} =>
                    /\ b.pc \in {"geturl", "done", "failed"}
                    /\ \A i \in DOMAIN a.parts : b.parts[i] = "sent" => a.parts[i] = "sent"
              /\ (a.pc # "done" /\ b.pc = "done") =>
                    (a.finalized /\ \A i \in 0..(a.total - 1) : a.parts[i] = "done")]_vars

\* C28 witness: a job of more than one window finished with no failure, every
\* part done
C28_Witness ==
    \E j \in 1..Len(jobs) :
        /\ jobs[j].pc = "done" /\ ~jobs[j].faulted /\ faults = 0
        /\ jobs[j].total > PARALLEL_CHUNKS
        /\ jobs[j].completed = jobs[j].total
        /\ \A i \in DOMAIN jobs[j].parts : jobs[j].parts[i] = "done"

DoneParts(job) == {i \in DOMAIN job.parts : job.parts[i] = "done"}

\* C29: the completed-parts counter of an upload job is 0 when the job
\* starts, goes up by exactly 1 at each step at which a part upload succeeds
\* and changes at no other step, never exceeds totalChunks, and is
\* totalChunks when the job issues its finalize request.
C29_CompletedCounter ==
    [][/\ \A j \in 1..Len(jobs') :
             /\ j > Len(jobs) => jobs'[j].completed = 0
             /\ jobs'[j].completed \in 0..jobs'[j].total
             /\ jobs'[j].completed = Cardinality(DoneParts(jobs'[j]))
             /\ jobs'[j].pc = "finalize" => jobs'[j].completed = jobs'[j].total
       /\ \A j \in 1..Len(jobs) :
             jobs'[j].completed =
                 jobs[j].completed
                    + Cardinality(DoneParts(jobs'[j]) \ DoneParts(jobs[j]))
       /\ \A j \in 1..Len(jobs) :
             /\ jobs'[j].completed >= jobs[j].completed
             /\ jobs'[j].completed <= jobs[j].completed + 1]_vars

\* C29 witness: a job of two parts or more is at its finalize request with
\* the counter at totalChunks
C29_Witness ==
    \E j \in 1..Len(jobs) :
        /\ jobs[j].pc = "finalize"
        /\ jobs[j].total >= 2
        /\ jobs[j].completed = jobs[j].total

\* C30: at the step at which the upload of part i of a proxied job fails,
\* every other part of the session is as before: the session holds the same
\* other indices with the same bytes, and every other part of the job keeps
\* its status, a sibling in flight staying in flight.
C30_PartFailureIsolated ==
    [][\A j \in 1..Len(jobs) : \A i \in DOMAIN jobs[j].parts :
          (/\ mode = "proxied"
           /\ jobs[j].parts[i] = "sent" /\ jobs'[j].parts[i] = "failed") =>
              LET u == jobs[j].uploadId IN
              /\ chunkDirs'[u].exists = chunkDirs[u].exists
              /\ DOMAIN chunkDirs'[u].chunks \ {i} = DOMAIN chunkDirs[u].chunks \ {i}
              /\ \A o \in DOMAIN chunkDirs[u].chunks \ {i} :
                    chunkDirs'[u].chunks[o] = chunkDirs[u].chunks[o]
              /\ \A o \in DOMAIN jobs[j].parts \ {i} :
                    jobs'[j].parts[o] = jobs[j].parts[o]]_vars

\* C30 witness: in a proxied job one part has failed while a sibling is
\* still in flight and another, stored by the server, is done
C30_Witness ==
    \E j \in 1..Len(jobs) :
        /\ mode = "proxied"
        /\ FailedParts(jobs[j]) # {} /\ InFlight(jobs[j]) # {}
        /\ \E o \in DoneParts(jobs[j]) :
              /\ ChunkExists(chunkDirs, jobs[j].uploadId, o)
              /\ chunkDirs[jobs[j].uploadId].chunks[o] =
                    ChunkOf(jobs[j].file.data, o, chunkSize)

\* the init request of the running upload waits for an upload id and the
\* model has none left (its ids are bounded)
OutOfUploadIds ==
    /\ mode = "proxied" /\ Cur > 0 /\ jobs[Cur].pc = "init"
    /\ ~CanInit(jobs[Cur].file.name, jobs[Cur].total)

\* C32: when every network request settles, every started upload and download
\* job settles: its uploading/downloading flag returns to false, on success
\* and on every failure path, and the job has then ended in exactly one of the
\* outcomes complete or failed, which it keeps.
C32_JobsSettle ==
    /\ (uploading /\ ~OutOfUploadIds) ~> ~uploading
    /\ downloading ~> ~downloading
    /\ [][(uploading /\ ~uploading') =>
             \/ jobs'[Cur'].pc = "done" /\ status' # "Chunked Upload Failed"
             \/ jobs'[Cur'].pc = "failed" /\ status' = "Chunked Upload Failed"]_vars
    /\ [][(downloading /\ ~downloading') =>
             downloads'[CurD'].pc \in {"done", "failed"}]_vars
    /\ [][/\ \A j \in 1..Len(jobs) :
                jobs[j].pc \in {"done", "failed"} => jobs'[j].pc = jobs[j].pc
          /\ \A k \in 1..Len(downloads) :
                downloads[k].pc \in {"done", "failed"} =>
                    downloads'[k].pc = downloads[k].pc]_vars

\* an upload that succeeded and a download that failed have both settled
C32_Witness ==
    /\ Len(jobs) = 1 /\ jobs[1].pc = "done" /\ ~uploading
    /\ Len(downloads) = 1 /\ downloads[1].pc = "failed" /\ ~downloading


\* C34: a job that has settled has no part operation in flight, so that no
\* part of a settled job later changes the progress, the session, the object
\* store or the download buffer, or overlaps the parts of the next job.
C34_SettledJobHasNoPartInFlight ==
    /\ \A j \in 1..Len(jobs) :
          jobs[j].pc \in {"done", "failed"} => InFlight(jobs[j]) = {}
    /\ \A k \in 1..Len(downloads) :
          downloads[k].pc \in {"done", "failed"} => InFlight(downloads[k]) = {}


\* a job between its start and the moment it settles
ActiveJobs == {j \in 1..Len(jobs) : jobs[j].pc \notin {"done", "failed"}}

ActiveDownloads == {k \in 1..Len(downloads) : downloads[k].pc \notin {"done", "failed"}}

\* C33: at most one upload job and at most one download job are active at any
\* time, a job starts only while the flag of its direction is false, and only
\* the active upload job writes the progress, the stats and the status of the
\* component while it runs.
C33_OneJobPerDirection ==
    /\ [][/\ Cardinality(ActiveJobs') <= 1
          /\ Cardinality(ActiveDownloads') <= 1
          /\ Len(jobs') > Len(jobs) => ~uploading /\ uploading'
          /\ Len(downloads') > Len(downloads) => ~downloading /\ downloading']_vars
    /\ [][\A j \in 1..Len(jobs), i \in 0..(MaxFileSize - 1) :
             (/\ uploading /\ j # Cur
              /\ \/ TradChunkResponse(j, i) \/ OptChunkResponse(j, i)
                 \/ \E r \in BOOLEAN : TradChunkFault(j, i, r) \/ OptChunkFault(j, i, r))
                 => UNCHANGED <<uploadProgress, stats, status>>]_vars


\* C35: while an upload job is in progress the displayed uploadProgress never
\* decreases and stays within 0..100, also when another file is selected and
\* when late parts of an earlier failed job complete.
C35_ProgressMonotone ==
    [][(uploading /\ uploading') =>
          /\ uploadProgress' >= uploadProgress
          /\ uploadProgress' \in 0..100]_vars


\* C36: success and failure of an upload job exclude each other: a job that has
\* recorded its stats and invoked onUploadSuccess does not end failed, and the
\* step that makes a job failed after its finalize request stores no object.
C36_SuccessExcludesFailure ==
    [][\A j \in 1..Len(jobs) :
          (jobs[j].pc # "failed" /\ jobs'[j].pc = "failed") =>
              /\ jobs[j].pc # "geturl"
              /\ jobs[j].pc = "finalize" => UNCHANGED <<bucket, committed>>]_vars


\* the bytes a direct upload job has put into the object store: the bodies of
\* its part PUTs that succeeded and the body of its finalizing PUT
BytesSent(job) ==
    Len(Concat([k \in 1..job.total |->
                  IF job.parts[k - 1] = "done"
                  THEN ChunkOf(job.file.data, k - 1, chunkSize)
                  ELSE <<>>]))
    + (IF job.pc \in {"geturl", "done"} THEN Len(OptFinalizeRequest(job).body) ELSE 0)

\* C38: once a direct chunked upload of a file named N has succeeded, the
\* listing of the bucket contains N and no part object N.part<i> of the job,
\* and each byte of the file has been sent to the object store once.
C38_OnlyWholeObjectListed ==
    [][\A j \in 1..Len(jobs) :
          (mode = "direct" /\ jobs[j].pc = "finalize" /\ jobs'[j].pc = "geturl") =>
              LET n == jobs[j].file.name
                  names == {o.name : o \in Listing(bucket', permanent')}
              IN  /\ WholeKey(n) \in names
                  /\ \A i \in DOMAIN jobs[j].parts : PartKey(n, i) \notin names
                  /\ BytesSent(jobs'[j]) = Len(jobs[j].file.data)]_vars


\* C37: a chunked download that completes hands over the bytes of one version
\* of the object, as long as the size it probed: when the object is replaced
\* or deleted while the download runs, the download fails.
C37_DownloadOfOneVersion ==
    [][\A k \in 1..Len(downloads) :
          (/\ mode = "replace"
           /\ downloads[k].pc # "done" /\ downloads'[k].pc = "done") =>
              \E v \in ObjectVersions :
                  saved' = FileOf(v, downloads'[k].size).data]_vars


(* ==================== properties of the whole-file routes ============== *)
\* C20: DELETE /videos/:filename tries both stores: whatever happens to the
\* local file, an object store that works loses the object; with no failure
\* the answer is 200, also when the name is in one store only or in neither;
\* and the answer is 200 only if afterwards neither store holds the name.
C20_DeleteBothOrReport ==
    [][\A n \in Names, uf \in BOOLEAN, mf \in BOOLEAN :
          (lastResp'.route = "delete" /\ LibDelete(n, uf, mf)) =>
              /\ ~mf => ~bucket'[WholeKey(n)].present
              /\ (~uf /\ ~mf) => lastResp'.status = 200
              /\ lastResp'.status = 200 =>
                    (~permanent'[n].present /\ ~bucket'[WholeKey(n)].present)]_vars

\* C22: an upload through the server that answers 200 leaves the file as the
\* object of its name in the bucket, and the video route answers with the
\* bytes of that object: it succeeds exactly when the bucket holds the name,
\* and without a Range header its body is the whole object.
C22_ProxiedUsesObjectStore ==
    [][/\ \A f \in Files :
             (/\ lastResp'.route = "upload" /\ lastResp'.status = 200
              /\ LibUpload(f)) =>
                 bucket'[WholeKey(f.name)] = Stored(f.data)
       /\ \A n \in Names, start \in RangeStartInputs, end \in EndInputs :
             (lastResp'.route = "video" /\ LibVideo(n, start, end)) =>
                 /\ lastResp'.status \in {200, 206} <=> bucket[WholeKey(n)].present
                 /\ lastResp'.status = 200 =>
                       VideoBody(permanent, n, start, end) = bucket[WholeKey(n)].data]_vars

(* ======================= properties of the splitter =================== *)
Lengths(parts) == [k \in 1..Len(parts) |-> Len(parts[k])]

\* C8: for a file of S >= 1 bytes and chunk size C the splitter makes
\* ceil(S / C) parts, part i holding bytes [i*C, min((i+1)*C, S)); the lengths
\* sum to S, every part but the last has length C and the last has S mod C,
\* or C when that is 0; 12 with chunk size 5 gives 5, 5, 2 in one window.
C8_SplitterParts ==
    (mode = "parts" /\ Len(file.data) >= 1) =>
        LET S == Len(file.data)
            C == chunkSize
            n == Len(split)
        IN  /\ n * C >= S /\ (n - 1) * C < S
            /\ \A i \in 0..(n - 1) :
                  split[i + 1] = SubSeq(file.data, i * C + 1,
                                        IF (i + 1) * C < S THEN (i + 1) * C ELSE S)
            /\ Len(Concat(split)) = S
            /\ \A k \in 1..(n - 1) : Len(split[k]) = C
            /\ Len(split[n]) = IF S % C = 0 THEN C ELSE S % C
            /\ (S = 12 /\ C = 5) =>
                  (Lengths(split) = <<5, 5, 2>> /\ WindowIndices(0, n) = 0..2)

\* C8 witness: the 12 byte file split with chunk size 5
C8_Witness ==
    /\ mode = "parts"
    /\ Len(file.data) = 12 /\ chunkSize = 5
    /\ Len(split) = 3 /\ Len(split[3]) = 2
=============================================================================
